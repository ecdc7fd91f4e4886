------------------------------- MODULE ApiClient -------------------------------
(***************************************************************************)
(* The session of the browser with the local backend                       *)
(* (src/frontend/src/api/client.ts): every call that changes something     *)
(* carries the token of the backend that runs, all calls share one session *)
(* request, and a call the backend refuses renews the session and is sent  *)
(* once more.  The backend is restarted by an update or by the user, with  *)
(* a new token; requests and answers are lost, late or cut.                *)
(*                                                                         *)
(* A token is the number of the backend's start.  Every caller makes one   *)
(* call, two of those that overlap share the session.                      *)
(***************************************************************************)
EXTENDS Naturals

CONSTANTS
  Callers,
  MaxStarts,      \* bound: backend starts
  MaxAsked        \* bound: session requests; two for each caller are enough

ASSUME ApiAssumption == MaxStarts \in Nat /\ MaxAsked \in Nat

VARIABLES
  token,          \* of the backend that runs
  session,        \* sessionTokenRequest: the number of a request; 0 is null
  sessionAsks,    \* session requests so far
  fetched,        \* of each: "out", "read" by the backend, "got", "failed"
  carried,        \* the token it was answered with
  call,           \* where each call is
  waits,          \* the session request it awaits
  sentWith,       \* the token it was sent with
  retried,        \* it was refused and is on its second try
  refusedBy,      \* the backend that refused its first try (history variable)
  executed        \* how often the backend executed it (history variable)

apiVars == <<token, session, sessionAsks, fetched, carried, call, waits, sentWith, retried,
             refusedBy, executed>>
sessionVars == <<session, sessionAsks, fetched, carried>>
callVars == <<call, waits, sentWith, retried, refusedBy, executed>>

SessionNumbers == 1..MaxAsked
CallStates == {"idle", "session", "sent", "accepted", "refused",
               "ok", "empty", "failed", "forbidden"}

ApiInit ==
  /\ token = 0 /\ session = 0 /\ sessionAsks = 0
  /\ fetched = [n \in SessionNumbers |-> "none"] /\ carried = [n \in SessionNumbers |-> 0]
  /\ call = [c \in Callers |-> "idle"] /\ waits = [c \in Callers |-> 0]
  /\ sentWith = [c \in Callers |-> 0] /\ retried = [c \in Callers |-> FALSE]
  /\ refusedBy = [c \in Callers |-> 0] /\ executed = [c \in Callers |-> 0]

-----------------------------------------------------------------------------
(* fetchSessionToken *)

\* Slip: a forced refresh joins the request that is there.
fetchSessionTokenJoins(c, forceRefresh) ==
  IF session # 0
  THEN waits' = [waits EXCEPT ![c] = session] /\ UNCHANGED sessionVars
  ELSE /\ sessionAsks < MaxAsked /\ sessionAsks' = sessionAsks + 1 /\ session' = sessionAsks + 1
       /\ fetched' = [fetched EXCEPT ![sessionAsks + 1] = "out"] /\ UNCHANGED carried
       /\ waits' = [waits EXCEPT ![c] = sessionAsks + 1]

fetchSessionToken(c, forceRefresh) ==
  IF session # 0 /\ ~forceRefresh
  THEN waits' = [waits EXCEPT ![c] = session] /\ UNCHANGED sessionVars
  ELSE /\ sessionAsks < MaxAsked /\ sessionAsks' = sessionAsks + 1 /\ session' = sessionAsks + 1
       /\ fetched' = [fetched EXCEPT ![sessionAsks + 1] = "out"] /\ UNCHANGED carried
       /\ waits' = [waits EXCEPT ![c] = sessionAsks + 1]

SessionRead(n) ==
  /\ fetched[n] = "out" /\ fetched' = [fetched EXCEPT ![n] = "read"]
  /\ carried' = [carried EXCEPT ![n] = token]
  /\ UNCHANGED <<token, session, sessionAsks, callVars>>

SessionArrives(n) ==
  /\ fetched[n] = "read" /\ fetched' = [fetched EXCEPT ![n] = "got"]
  /\ UNCHANGED <<token, session, sessionAsks, carried, callVars>>

\* A request that failed or took longer than 3 s is given up, unless a newer one
\* has taken its place.
SessionFails(n) ==
  /\ fetched[n] \in {"out", "read"} /\ fetched' = [fetched EXCEPT ![n] = "failed"]
  /\ session' = IF session = n THEN 0 ELSE session
  /\ UNCHANGED <<token, sessionAsks, carried, callVars>>

-----------------------------------------------------------------------------
(* secureInit and secureFetch *)

Goes(c, to) == call' = [call EXCEPT ![c] = to]

secureInit(c) ==
  /\ call[c] = "idle" /\ Goes(c, "session") /\ fetchSessionToken(c, FALSE)
  /\ UNCHANGED <<token, sentWith, retried, refusedBy, executed>>

SendWithToken(c) ==
  /\ call[c] = "session" /\ fetched[waits[c]] = "got" /\ Goes(c, "sent")
  /\ sentWith' = [sentWith EXCEPT ![c] = carried[waits[c]]]
  /\ UNCHANGED <<token, sessionVars, waits, retried, refusedBy, executed>>

\* The backend executes a call that carries its token and refuses any other.
Handle(c) ==
  /\ call[c] = "sent"
  /\ \/ /\ sentWith[c] = token /\ Goes(c, "accepted")
        /\ executed' = [executed EXCEPT ![c] = @ + 1] /\ UNCHANGED refusedBy
     \/ /\ sentWith[c] # token /\ Goes(c, "refused")
        /\ refusedBy' = [refusedBy EXCEPT ![c] = IF retried[c] THEN @ ELSE token]
        /\ UNCHANGED executed
  /\ UNCHANGED <<token, sessionVars, waits, sentWith, retried>>

\* The first refusal that can be read as one renews the session.
secureFetch(c) ==
  /\ call[c] = "refused" /\ ~retried[c] /\ Goes(c, "session")
  /\ retried' = [retried EXCEPT ![c] = TRUE]
  /\ fetchSessionToken(c, TRUE)
  /\ UNCHANGED <<token, sentWith, refusedBy, executed>>

-----------------------------------------------------------------------------
(* apiCall *)

\* A body that is cut, also by the timeout, reads as an empty answer.
Settle(c) ==
  /\ \/ call[c] = "accepted" /\ (Goes(c, "ok") \/ Goes(c, "empty"))
     \/ call[c] = "refused" /\ Goes(c, "forbidden")
     \/ call[c] = "session" /\ fetched[waits[c]] = "failed" /\ Goes(c, "failed")
  /\ UNCHANGED <<token, sessionVars, waits, sentWith, retried, refusedBy, executed>>

\* Slip: a call without an answer is sent again.
LoseAndRetry(c) ==
  /\ call[c] \in {"sent", "accepted", "refused"} /\ ~retried[c] /\ Goes(c, "session")
  /\ retried' = [retried EXCEPT ![c] = TRUE]
  /\ executed' \in {executed, IF call[c] = "sent" /\ sentWith[c] = token
                              THEN [executed EXCEPT ![c] = @ + 1] ELSE executed}
  /\ UNCHANGED <<token, sessionVars, waits, sentWith, refusedBy>>

\* The timeout, the caller's signal or a lost connection, before the request is sent,
\* with it on its way (the backend may still execute it), or with the answer on its way.
Lose(c) ==
  /\ \/ call[c] = "session" /\ fetched[waits[c]] = "got"
     \/ call[c] \in {"sent", "accepted", "refused"}
  /\ Goes(c, "failed")
  /\ executed' \in {executed, IF call[c] = "sent" /\ sentWith[c] = token
                              THEN [executed EXCEPT ![c] = @ + 1] ELSE executed}
  /\ UNCHANGED <<token, sessionVars, waits, sentWith, retried, refusedBy>>

\* The backend starts again, with another token.
StartBackend ==
  token < MaxStarts /\ token' = token + 1 /\ UNCHANGED <<sessionVars, callVars>>

ApiNext ==
  \/ StartBackend
  \/ \E n \in SessionNumbers : SessionRead(n) \/ SessionArrives(n) \/ SessionFails(n)
  \/ \E c \in Callers : \/ secureInit(c) \/ SendWithToken(c) \/ Handle(c)
                        \/ secureFetch(c) \/ Settle(c) \/ Lose(c)

ApiSpec == ApiInit /\ [][ApiNext]_apiVars

-----------------------------------------------------------------------------
(* Properties *)

ApiTypeOK ==
  /\ token \in 0..MaxStarts
  /\ sessionAsks \in 0..MaxAsked /\ session \in 0..sessionAsks
  /\ fetched \in [SessionNumbers -> {"none", "out", "read", "got", "failed"}]
  /\ carried \in [SessionNumbers -> 0..MaxStarts]
  /\ call \in [Callers -> CallStates]
  /\ waits \in [Callers -> 0..sessionAsks]
  /\ sentWith \in [Callers -> 0..MaxStarts]
  /\ retried \in [Callers -> BOOLEAN]
  /\ refusedBy \in [Callers -> 0..MaxStarts]
  /\ executed \in [Callers -> Nat]

\* However the session is renewed and whatever is lost, the backend executes a call at
\* most once: only a call it refused is sent again (client.ts:81, :86).
ExecutedOnce == \A c \in Callers : executed[c] <= 1

\* A call that is refused twice was refused by two backends: the second try carries a
\* token that was asked for after the first refusal, whatever the other calls did to the
\* shared session meanwhile (client.ts:37, :85).
RefusedTwiceByAnother ==
  \A c \in Callers : retried[c] /\ call[c] = "refused" => refusedBy[c] < token
=============================================================================
