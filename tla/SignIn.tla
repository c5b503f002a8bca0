-------------------------------- MODULE SignIn --------------------------------
(***************************************************************************)
(* How one browser stays signed in.  Its cookies hold an access token and   *)
(* the refresh token that renews it; OS Accounts replaces a refresh token    *)
(* when it is used, and a token that was replaced is refused.  A page sends  *)
(* many requests at once with the same cookies, so a replica keeps one       *)
(* flight per refresh token, with the answer for a minute after it came.    *)
(* Tokens are numbered in the order OS Accounts issues them, 0 is no token. *)
(***************************************************************************)
EXTENDS Naturals, Sequences, FiniteSets, SequencesExt

CONSTANTS
    Calls,          \* requests of the browser in flight
    NoCall,         \* none
    MaxToken,       \* bound: refresh tokens ever issued
    MaxSignIn,      \* bound: sign-ins ever started
    MaxFlights      \* MAX_REFRESH_RESULTS

ASSUME SignInAssumption == MaxToken \in Nat \ {0} /\ MaxSignIn \in Nat /\ MaxFlights \in Nat \ {0}

VARIABLES
    jar,            \* the browser's cookies
    account,        \* the sessions of OS Accounts
    flights,        \* RefreshCoordinator: the entries, in their order
    calls,          \* the requests in flight
    refused,        \* tokens a request with them was turned away for (401)
    spoiled         \* tokens whose successor was lost, or that were given up

signInVars == <<jar, account, flights, calls, refused, spoiled>>

Tokens == 1 .. MaxToken

SignIns == 1 .. MaxSignIn

(* A flight without outcome is that of a call that posts, or of none when    *)
(* that call was dropped.                                                    *)
Flight ==
    [token : Tokens, outcome : {"none", "success", "unauthorized", "unavailable"},
     new : 0 .. MaxToken]

(* A call asks OS Accounts who it is, joins the flight of its token, posts,   *)
(* gets the answer, waits for that of another call, asks again with the new  *)
(* token, runs its handler, and answers; a call back from the sign-in page   *)
(* exchanges its code.                                                       *)
Call ==
    [pc : {"who", "join", "post", "answered", "wait", "who_again", "handle", "reply",
           "exchange"},
     token : 0 .. MaxToken, access : 0 .. MaxToken, new : 0 .. MaxToken]

ASSUME NoCallAssumption == NoCall \notin Call

SignInTypeOK ==
    /\ jar \in [token : 0 .. MaxToken, access : 0 .. MaxToken, flow : 0 .. MaxSignIn]
    /\ account \in [token : 0 .. MaxToken, issued : Tokens, expired : SUBSET Tokens,
                   started : 0 .. MaxSignIn]
    /\ flights \in Seq(Flight) /\ Len(flights) <= MaxFlights
    /\ calls \in [Calls -> Call \cup {NoCall}]
    /\ refused \subseteq Tokens /\ spoiled \subseteq Tokens

SignInInit ==
    /\ jar = [token |-> 1, access |-> 1, flow |-> 0]
    /\ account = [token |-> 1, issued |-> 1, expired |-> {}, started |-> 0]
    /\ flights = <<>>
    /\ calls = [c \in Calls |-> NoCall]
    /\ refused = {}
    /\ spoiled = {}

-----------------------------------------------------------------------------
Is(c, pc) == calls[c] # NoCall /\ calls[c].pc = pc

Flights == ToSet(flights)

(* Everybody at a flight learns its outcome.                                 *)
AtFlight(c, token) == calls[c] # NoCall /\ calls[c].token = token /\ calls[c].pc \in {"post", "answered", "wait"}

Learn(call, outcome, new) ==
    IF outcome = "success"
    THEN [pc |-> "who_again", token |-> call.token, access |-> call.access, new |-> new]
    ELSE NoCall

Finish(token, outcome, new) ==
    /\ flights' = [i \in DOMAIN flights |->
                      IF flights[i].token = token
                      THEN [token |-> token, outcome |-> outcome, new |-> new] ELSE flights[i]]
    /\ calls' = [c \in Calls |->
                    IF AtFlight(c, token) THEN Learn(calls[c], outcome, new) ELSE calls[c]]
    /\ refused' = refused \cup (IF outcome = "unauthorized" THEN {token} ELSE {})

(* What was to come out of a token is lost with the call that held it.       *)
LostWith(c) == IF Is(c, "answered") /\ calls[c].new # 0 THEN {calls[c].token} ELSE {}

-----------------------------------------------------------------------------
(* Requests of the dashboard.                                                *)

Send(c) ==
    /\ calls[c] = NoCall
    /\ jar.token # 0
    /\ calls' = [calls EXCEPT ![c] = [pc |-> "who", token |-> jar.token, access |-> jar.access,
                                      new |-> 0]]
    /\ UNCHANGED <<jar, account, flights, refused, spoiled>>

(* resolve: who the access token is; one that expired needs a new one.       *)
AskWho(c) ==
    /\ Is(c, "who")
    /\ calls' = [calls EXCEPT ![c].pc =
                    IF calls[c].access \in Tokens \ account.expired THEN "handle" ELSE "join"]
    /\ UNCHANGED <<jar, account, flights, refused, spoiled>>

(* make_room: the oldest flight that is over leaves a full table.            *)
MadeRoom(entries) ==
    LET over == {i \in DOMAIN entries : entries[i].outcome # "none"}
    IN  IF Len(entries) < MaxFlights \/ over = {} THEN entries
        ELSE RemoveAt(entries, CHOOSE i \in over : \A j \in over : i <= j)

Dropped(before, after) ==
    {entry.token : entry \in {e \in ToSet(before) \ ToSet(after) : e.outcome = "success"}}

(* Mutant: every request posts on its own, and the table has no limit.       *)
JoinAlone(c) ==
    LET token == calls[c].token
    IN  /\ Is(c, "join")
        /\ flights' = IF token \in {f.token : f \in Flights} THEN flights
                      ELSE Append(flights, [token |-> token, outcome |-> "none", new |-> 0])
        /\ calls' = [calls EXCEPT ![c].pc = "post"]
        /\ UNCHANGED <<jar, account, refused, spoiled>>

(* refresh_tokens, up to the flight: joined, or entered when there is room.   *)
Join(c) ==
    LET token == calls[c].token
        found == {f \in Flights : f.token = token}
        kept == MadeRoom(flights)
    IN  /\ Is(c, "join")
        /\ IF found = {}
           THEN /\ spoiled' = spoiled \cup Dropped(flights, kept)
                /\ IF Len(kept) < MaxFlights
                   THEN /\ flights' = Append(kept, [token |-> token, outcome |-> "none", new |-> 0])
                        /\ calls' = [calls EXCEPT ![c].pc = "wait"]
                   ELSE flights' = kept /\ calls' = [calls EXCEPT ![c] = NoCall]
                /\ UNCHANGED refused
           ELSE LET f == CHOOSE f \in found : TRUE
                IN  /\ calls' = [calls EXCEPT ![c] =
                                    IF f.outcome = "none" THEN [calls[c] EXCEPT !.pc = "wait"]
                                    ELSE Learn(calls[c], f.outcome, f.new)]
                    /\ refused' = refused \cup (IF f.outcome = "unauthorized" THEN {token} ELSE {})
                    /\ UNCHANGED <<flights, spoiled>>
        /\ UNCHANGED <<jar, account>>

(* OnceCell: one of those that wait posts, the next one if it is dropped.    *)
Post(c) ==
    /\ Is(c, "wait")
    /\ \A d \in Calls : AtFlight(d, calls[c].token) => Is(d, "wait")
    /\ calls' = [calls EXCEPT ![c].pc = "post"]
    /\ UNCHANGED <<jar, account, flights, refused, spoiled>>

Issue ==
    [token |-> account.issued + 1, issued |-> account.issued + 1, expired |-> account.expired,
     started |-> account.started]

(* OS Accounts replaces the token, if it is the one in use.                  *)
Rotate(c) ==
    /\ Is(c, "post")
    /\ IF calls[c].token = account.token
       THEN /\ account.issued < MaxToken
            /\ account' = Issue
            /\ calls' = [calls EXCEPT ![c] =
                            [pc |-> "answered", token |-> calls[c].token,
                             access |-> calls[c].access, new |-> account.issued + 1]]
       ELSE /\ calls' = [calls EXCEPT ![c].pc = "answered"]
            /\ UNCHANGED account
    /\ UNCHANGED <<jar, flights, refused, spoiled>>

Receive(c) ==
    /\ Is(c, "answered")
    /\ Finish(calls[c].token, IF calls[c].new # 0 THEN "success" ELSE "unauthorized", calls[c].new)
    /\ UNCHANGED <<jar, account, spoiled>>

(* The call, or its answer, is lost between the two services.                *)
LoseAnswer(c) ==
    /\ Is(c, "post") \/ Is(c, "answered")
    /\ spoiled' = spoiled \cup LostWith(c)
    /\ Finish(calls[c].token, "unavailable", 0)
    /\ UNCHANGED <<jar, account>>

(* The new token says who it is; it lives longer than a flight.              *)
AskWhoAgain(c) ==
    /\ Is(c, "who_again")
    /\ calls' = [calls EXCEPT ![c].pc = "handle"]
    /\ UNCHANGED <<jar, account, flights, refused, spoiled>>

Handle(c) ==
    /\ Is(c, "handle")
    /\ calls' = [calls EXCEPT ![c].pc = "reply"]
    /\ UNCHANGED <<jar, account, flights, refused, spoiled>>

(* A call fails, or its browser hangs up: new tokens go with it.             *)
Fail(c) ==
    /\ calls[c] # NoCall
    /\ spoiled' = spoiled \cup LostWith(c)
    /\ calls' = [calls EXCEPT ![c] = NoCall]
    /\ UNCHANGED <<jar, account, flights, refused>>

(* dashboard_response: new tokens become the cookies, whatever is there now. *)
Reply(c) ==
    /\ Is(c, "reply")
    /\ jar' = IF calls[c].new = 0 THEN jar
              ELSE [token |-> calls[c].new, access |-> calls[c].new, flow |-> jar.flow]
    /\ calls' = [calls EXCEPT ![c] = NoCall]
    /\ UNCHANGED <<account, flights, refused, spoiled>>

-----------------------------------------------------------------------------
(* Time and processes.                                                       *)

(* An access token expires after those who were given it in a flight.        *)
ExpireAccess(token) ==
    /\ token \in 1 .. account.issued \ account.expired
    /\ \A f \in Flights : f.new # token
    /\ \A c \in Calls : calls[c] # NoCall => calls[c].new # token
    /\ account' = [account EXCEPT !.expired = @ \cup {token}]
    /\ UNCHANGED <<jar, flights, calls, refused, spoiled>>

(* A minute after: the outcome is forgotten, also by prune.                  *)
Forget(i) ==
    /\ flights[i].outcome # "none"
    /\ flights' = RemoveAt(flights, i)
    /\ spoiled' = spoiled \cup (IF flights[i].outcome = "success" THEN {flights[i].token} ELSE {})
    /\ UNCHANGED <<jar, account, calls, refused>>

Restart ==
    /\ flights' = <<>>
    /\ spoiled' = spoiled \cup Dropped(flights, <<>>) \cup UNION {LostWith(c) : c \in Calls}
    /\ calls' = [c \in Calls |-> NoCall]
    /\ UNCHANGED <<jar, account, refused>>

-----------------------------------------------------------------------------
(* Signing in and out.                                                       *)

(* auth_start: the cookies of the flow replace those of another one.         *)
StartSignIn ==
    /\ account.started < MaxSignIn
    /\ account' = [account EXCEPT !.started = @ + 1]
    /\ jar' = [jar EXCEPT !.flow = account.started + 1]
    /\ UNCHANGED <<flights, calls, refused, spoiled>>

SignedOut == [token |-> 0, access |-> 0, flow |-> 0]

(* auth_callback: the sign-in page sends the browser back from a flow.  One   *)
(* that is not the last one started, or was refused, signs the browser out.  *)
ReturnFrom(c, flow) ==
    /\ calls[c] = NoCall
    /\ flow <= account.started
    /\ IF flow = jar.flow
       THEN /\ calls' = [calls EXCEPT ![c] = [pc |-> "exchange", token |-> jar.token,
                                              access |-> 0, new |-> 0]]
            /\ UNCHANGED jar
       ELSE jar' = SignedOut /\ UNCHANGED calls
    /\ UNCHANGED <<account, flights, refused, spoiled>>

Exchange(c) ==
    /\ Is(c, "exchange")
    /\ account.issued < MaxToken
    /\ account' = Issue
    /\ jar' = [token |-> account.issued + 1, access |-> account.issued + 1, flow |-> 0]
    /\ spoiled' = spoiled \cup (1 .. account.issued)
    /\ calls' = [calls EXCEPT ![c] = NoCall]
    /\ UNCHANGED <<flights, refused>>

ExchangeFails(c) ==
    /\ Is(c, "exchange")
    /\ jar' = SignedOut
    /\ calls' = [calls EXCEPT ![c] = NoCall]
    /\ UNCHANGED <<account, flights, refused, spoiled>>

(* logout_handler: OS Accounts is told the token of the cookie, and need not  *)
(* hear it.                                                                  *)
SignOut(heard) ==
    /\ jar.token # 0
    /\ jar' = [token |-> 0, access |-> 0, flow |-> jar.flow]
    /\ IF heard /\ account.token = jar.token
       THEN account' = [account EXCEPT !.token = 0] /\ spoiled' = spoiled \cup {jar.token}
       ELSE UNCHANGED <<account, spoiled>>
    /\ UNCHANGED <<flights, calls, refused>>

-----------------------------------------------------------------------------
SignInNext ==
    \/ \E c \in Calls :
        \/ Send(c) \/ AskWho(c) \/ Join(c) \/ Post(c) \/ Rotate(c) \/ Receive(c)
        \/ LoseAnswer(c) \/ AskWhoAgain(c) \/ Handle(c) \/ Fail(c) \/ Reply(c)
        \/ Exchange(c) \/ ExchangeFails(c)
        \/ \E flow \in SignIns : ReturnFrom(c, flow)
    \/ \E token \in Tokens : ExpireAccess(token)
    \/ \E i \in DOMAIN flights : Forget(i)
    \/ Restart
    \/ StartSignIn
    \/ \E heard \in BOOLEAN : SignOut(heard)

-----------------------------------------------------------------------------
SignInSpec == SignInInit /\ [][SignInNext]_signInVars

(* Requests that run at once, fail, are dropped or answered late do not sign  *)
(* the browser out.  A refresh token is turned away only if what replaced it  *)
(* was lost on the way, forgotten after its minute, or given up by signing    *)
(* out or in again; and any other token the browser holds is in use, or has   *)
(* a flight or a call that knows what replaced it.                           *)
SessionsSurvive ==
    /\ refused \subseteq spoiled
    /\ jar.token \notin spoiled \cup {0} =>
          \/ jar.token = account.token
          \/ \E f \in Flights : f.token = jar.token /\ f.outcome = "success"
          \/ \E c \in Calls : Is(c, "answered") /\ calls[c].token = jar.token /\ calls[c].new # 0

=============================================================================
