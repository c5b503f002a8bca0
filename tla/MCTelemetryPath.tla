--------------------------- MODULE MCTelemetryPath ---------------------------
(* TelemetryPath for one process and four events: activity nobody owns, a    *)
(* visitor that follows a product link in the same session, the sign-in of   *)
(* that visitor, and an event that conflicts with the sign-in.               *)
EXTENDS TelemetryPath

CONSTANTS u1, a1, v1, s1

Plain == [id |-> 1, user |-> NoOne, account |-> NoOne, visitor |-> NoOne, session |-> s1,
          link |-> FALSE]

MCTelemetry ==
    {Plain,
     [Plain EXCEPT !.id = 2, !.visitor = v1, !.link = TRUE],
     [Plain EXCEPT !.id = 3, !.user = u1, !.account = a1, !.visitor = v1],
     [Plain EXCEPT !.id = 2, !.user = u1, !.session = NoSession]}

=============================================================================
