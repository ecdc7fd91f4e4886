----------------------------- MODULE ServiceProofs -----------------------------
(***************************************************************************)
(* What the page knows of the service it talks to: the session of the API  *)
(* client, for any callers and any number of starts of the backend; the    *)
(* update dialog, for any number of jobs and page loads; and the probes of *)
(* the app shell, however many polls a reconnection makes and however slow *)
(* the service is.                                                         *)
(***************************************************************************)
EXTENDS ApiClient, UpdateDialog, AppShell, TLAPS

-----------------------------------------------------------------------------
(* The session of the API client *)

\* The tokens a call meets are ordered in time: what a second try awaits was asked for
\* after the refusal, so it carries the refusing backend's token or a later one.
TokensInOrder ==
  /\ \A n \in SessionNumbers : carried[n] <= token
  /\ \A c \in Callers :
       /\ sentWith[c] <= token /\ refusedBy[c] <= token
       /\ call[c] = "idle" => ~retried[c]
       /\ call[c] = "session" => waits[c] # 0
       /\ retried[c] /\ call[c] = "session" /\ fetched[waits[c]] \in {"read", "got"} =>
            refusedBy[c] <= carried[waits[c]]
       /\ retried[c] /\ call[c] = "sent" => refusedBy[c] <= sentWith[c]
       /\ retried[c] /\ call[c] = "refused" => refusedBy[c] < token

\* The backend executes a call when it accepts it, or when it was given up on its way.
ExecutedAtTheEnd ==
  \A c \in Callers :
    /\ executed[c] <= 1
    /\ call[c] \in {"idle", "session", "sent", "refused", "forbidden"} => executed[c] = 0

ApiInv == ApiTypeOK /\ TokensInOrder /\ ExecutedAtTheEnd

-----------------------------------------------------------------------------
USE DEF SessionNumbers, CallStates

\* Session requests are made by a call that then waits for them; the others keep theirs.
LEMMA SessionAsked ==
  ASSUME ApiTypeOK, NEW c \in Callers, NEW force \in BOOLEAN, fetchSessionToken(c, force)
  PROVE  /\ sessionAsks' \in 0..MaxAsked /\ session' \in 0..sessionAsks'
         /\ fetched' \in [SessionNumbers -> {"none", "out", "read", "got", "failed"}]
         /\ sessionAsks <= sessionAsks'
         /\ waits' \in [Callers -> 0..sessionAsks'] /\ carried' = carried
         /\ waits'[c] # 0 /\ \A d \in Callers \ {c} : waits'[d] = waits[d]
         /\ \A d \in Callers \ {c} : fetched'[waits[d]] = fetched[waits[d]] \/ waits[d] = 0
         /\ force => fetched'[waits'[c]] = "out"
<1> USE ApiAssumption DEF ApiTypeOK
<1>1. CASE session # 0 /\ ~force
  <2>1. waits' = [waits EXCEPT ![c] = session] /\ UNCHANGED sessionVars
    BY <1>1 DEF fetchSessionToken
  <2>2. waits'[c] = session /\ \A d \in Callers \ {c} : waits'[d] = waits[d]
    BY <2>1
  <2> QED BY <1>1, <2>1, <2>2 DEF sessionVars
<1>2. CASE ~(session # 0 /\ ~force)
  <2> DEFINE n == sessionAsks + 1
  <2>1. /\ sessionAsks < MaxAsked /\ sessionAsks' = n /\ session' = n
        /\ fetched' = [fetched EXCEPT ![n] = "out"] /\ carried' = carried
        /\ waits' = [waits EXCEPT ![c] = n]
    BY <1>2 DEF fetchSessionToken
  <2>2. n \in SessionNumbers /\ sessionAsks \in Nat /\ \A d \in Callers : waits[d] \in 0..sessionAsks
    BY <2>1
  <2>3. waits'[c] = n /\ fetched'[n] = "out" /\ \A d \in Callers \ {c} : waits'[d] = waits[d]
    BY <2>1, <2>2
  <2>4. ASSUME NEW d \in Callers \ {c} PROVE waits[d] = 0 \/ fetched'[waits[d]] = fetched[waits[d]]
    <3>1. waits[d] \in 0..sessionAsks
      OBVIOUS
    <3>2. waits[d] # n
      BY <2>2, <3>1
    <3> QED BY <2>1, <2>2, <3>1, <3>2
  <2> QED BY <2>1, <2>2, <2>3, <2>4
<1> QED BY <1>1, <1>2

\* At the start no call has been sent.
LEMMA ApiInitial == ApiInit => ApiInv
BY ApiAssumption DEF ApiInit, ApiInv, ApiTypeOK, TokensInOrder, ExecutedAtTheEnd

\* Every step keeps the types.
LEMMA ApiTypeStep == ApiInv /\ [ApiNext]_apiVars => ApiTypeOK'
<1> SUFFICES ASSUME ApiInv, [ApiNext]_apiVars PROVE ApiTypeOK'
  OBVIOUS
<1> USE ApiAssumption DEF ApiInv, ApiTypeOK
<1>1. CASE StartBackend
  BY <1>1 DEF StartBackend, sessionVars, callVars
<1>2. ASSUME NEW n \in SessionNumbers, SessionRead(n) \/ SessionArrives(n) \/ SessionFails(n)
      PROVE ApiTypeOK'
  <2>1. CASE SessionRead(n)
    BY <2>1 DEF SessionRead, callVars
  <2>2. CASE SessionArrives(n)
    BY <2>2 DEF SessionArrives, callVars
  <2>3. CASE SessionFails(n)
    BY <2>3 DEF SessionFails, callVars
  <2> QED BY <1>2, <2>1, <2>2, <2>3
<1>3. ASSUME NEW c \in Callers, secureInit(c) PROVE ApiTypeOK'
  BY <1>3, SessionAsked DEF secureInit, Goes
<1>4. ASSUME NEW c \in Callers, secureFetch(c) PROVE ApiTypeOK'
  BY <1>4, SessionAsked DEF secureFetch, Goes
<1>5. ASSUME NEW c \in Callers, SendWithToken(c) PROVE ApiTypeOK'
  <2>1. waits[c] \in SessionNumbers
    BY <1>5 DEF SendWithToken, TokensInOrder
  <2>2. carried[waits[c]] \in 0..MaxStarts
    BY <2>1
  <2> QED BY <1>5, <2>2 DEF SendWithToken, Goes, sessionVars
<1>6. ASSUME NEW c \in Callers, Handle(c) PROVE ApiTypeOK'
  <2>1. \/ executed' = [executed EXCEPT ![c] = executed[c] + 1]
        \/ executed' = executed
    BY <1>6 DEF Handle
  <2>2. executed' \in [Callers -> Nat]
    BY <2>1
  <2>3. \/ refusedBy' = [refusedBy EXCEPT ![c] = IF retried[c] THEN refusedBy[c] ELSE token]
        \/ refusedBy' = refusedBy
    BY <1>6 DEF Handle
  <2>4. refusedBy' \in [Callers -> 0..MaxStarts]
    BY <2>3
  <2>5. call' \in [Callers -> CallStates]
    BY <1>6 DEF Handle, Goes
  <2> QED BY <1>6, <2>2, <2>4, <2>5 DEF Handle, sessionVars
<1>7. ASSUME NEW c \in Callers, Settle(c) PROVE ApiTypeOK'
  BY <1>7 DEF Settle, Goes, sessionVars
<1>8. ASSUME NEW c \in Callers, Lose(c) PROVE ApiTypeOK'
  BY <1>8 DEF Lose, Goes, sessionVars
<1>9. CASE UNCHANGED apiVars
  BY <1>9 DEF apiVars
<1> QED BY <1>1, <1>2, <1>3, <1>4, <1>5, <1>6, <1>7, <1>8, <1>9 DEF ApiNext

\* No step brings a token from before the refusal it follows.
LEMMA TokensStep == ApiInv /\ [ApiNext]_apiVars => TokensInOrder'
<1> SUFFICES ASSUME ApiInv, [ApiNext]_apiVars, ApiTypeOK' PROVE TokensInOrder'
  BY ApiTypeStep
<1> USE ApiAssumption DEF ApiInv, ApiTypeOK, TokensInOrder
<1>1. CASE StartBackend
  BY <1>1 DEF StartBackend, sessionVars, callVars
<1>2. ASSUME NEW n \in SessionNumbers, SessionRead(n) \/ SessionArrives(n) \/ SessionFails(n)
      PROVE TokensInOrder'
  <2>1. CASE SessionRead(n)
    BY <2>1 DEF SessionRead, callVars
  <2>2. CASE SessionArrives(n)
    BY <2>2 DEF SessionArrives, callVars
  <2>3. CASE SessionFails(n)
    BY <2>3 DEF SessionFails, callVars
  <2> QED BY <1>2, <2>1, <2>2, <2>3
<1>3. ASSUME NEW c \in Callers, secureInit(c) \/ secureFetch(c) PROVE TokensInOrder'
  <2>1. /\ call' = [call EXCEPT ![c] = "session"]
        /\ retried' = retried \/ retried' = [retried EXCEPT ![c] = TRUE]
        /\ UNCHANGED <<token, sentWith, refusedBy>>
    BY <1>3 DEF secureInit, secureFetch, Goes
  <2>2. /\ carried' = carried /\ waits'[c] # 0
        /\ \A d \in Callers \ {c} : waits'[d] = waits[d]
        /\ \A d \in Callers \ {c} : waits[d] = 0 \/ fetched'[waits[d]] = fetched[waits[d]]
        /\ secureFetch(c) => fetched'[waits'[c]] = "out"
    BY <1>3, SessionAsked DEF secureInit, secureFetch
  <2>3. retried'[c] => fetched'[waits'[c]] = "out"
    BY <1>3, <2>2 DEF secureInit
  <2>4. \A d \in Callers \ {c} : call'[d] = call[d] /\ retried'[d] = retried[d]
    BY <2>1
  <2>5. call'[c] = "session"
    BY <2>1
  <2>6. ASSUME NEW d \in Callers \ {c}, retried'[d], call'[d] = "session",
               fetched'[waits'[d]] \in {"read", "got"}
        PROVE refusedBy'[d] <= carried'[waits'[d]]
    BY <2>1, <2>2, <2>4, <2>6
  <2>7. \A n \in SessionNumbers : carried'[n] <= token'
    BY <2>1, <2>2
  <2>8. ASSUME NEW d \in Callers
        PROVE /\ sentWith'[d] <= token' /\ refusedBy'[d] <= token'
              /\ call'[d] = "idle" => ~retried'[d]
              /\ call'[d] = "session" => waits'[d] # 0
              /\ retried'[d] /\ call'[d] = "sent" => refusedBy'[d] <= sentWith'[d]
              /\ retried'[d] /\ call'[d] = "refused" => refusedBy'[d] < token'
    <3>1. CASE d = c
      BY <2>1, <2>2, <2>5, <3>1
    <3>2. CASE d # c
      BY <2>1, <2>2, <2>4, <3>2
    <3> QED BY <3>1, <3>2
  <2>9. ASSUME NEW d \in Callers, retried'[d], call'[d] = "session",
               fetched'[waits'[d]] \in {"read", "got"}
        PROVE refusedBy'[d] <= carried'[waits'[d]]
    BY <2>3, <2>6, <2>9
  <2> QED BY <2>7, <2>8, <2>9
<1>5. ASSUME NEW c \in Callers, SendWithToken(c) PROVE TokensInOrder'
  BY <1>5 DEF SendWithToken, Goes, sessionVars
<1>6. ASSUME NEW c \in Callers, Handle(c) PROVE TokensInOrder'
  <2>1. CASE sentWith[c] = token
    BY <1>6, <2>1 DEF Handle, Goes, sessionVars
  <2>2. CASE sentWith[c] # token
    <3>1. /\ call' = [call EXCEPT ![c] = "refused"]
          /\ refusedBy' = [refusedBy EXCEPT ![c] = IF retried[c] THEN refusedBy[c] ELSE token]
          /\ UNCHANGED <<token, sessionVars, waits, sentWith, retried>>
      BY <1>6, <2>2 DEF Handle, Goes
    <3>2. call[c] = "sent" /\ sentWith[c] < token
      BY <1>6, <2>2 DEF Handle
    <3>3. refusedBy'[c] <= token /\ (retried[c] => refusedBy'[c] < token)
      BY <3>1, <3>2
    <3>4. \A d \in Callers \ {c} : call'[d] = call[d] /\ refusedBy'[d] = refusedBy[d]
      BY <3>1
    <3> QED BY <3>1, <3>3, <3>4 DEF sessionVars
  <2> QED BY <2>1, <2>2
<1>7. ASSUME NEW c \in Callers, Settle(c) PROVE TokensInOrder'
  <2>1. PICK to \in {"ok", "empty", "forbidden", "failed"} : call' = [call EXCEPT ![c] = to]
    BY <1>7 DEF Settle, Goes
  <2>2. UNCHANGED <<token, sessionVars, waits, sentWith, retried, refusedBy>>
    BY <1>7 DEF Settle
  <2>3. call'[c] = to /\ \A d \in Callers \ {c} : call'[d] = call[d]
    BY <2>1
  <2> QED BY <2>2, <2>3 DEF sessionVars
<1>8. ASSUME NEW c \in Callers, Lose(c) PROVE TokensInOrder'
  BY <1>8 DEF Lose, Goes, sessionVars
<1>9. CASE UNCHANGED apiVars
  BY <1>9 DEF apiVars
<1> QED BY <1>1, <1>2, <1>3, <1>5, <1>6, <1>7, <1>8, <1>9 DEF ApiNext

\* A call is executed where its state says it has been, once.
LEMMA ExecutedStep == ApiInv /\ [ApiNext]_apiVars => ExecutedAtTheEnd'
<1> SUFFICES ASSUME ApiInv, [ApiNext]_apiVars, ApiTypeOK' PROVE ExecutedAtTheEnd'
  BY ApiTypeStep
<1> USE DEF ApiInv, ApiTypeOK, ExecutedAtTheEnd
<1>1. CASE StartBackend
  BY <1>1 DEF StartBackend, callVars
<1>2. ASSUME NEW n \in SessionNumbers, SessionRead(n) \/ SessionArrives(n) \/ SessionFails(n)
      PROVE ExecutedAtTheEnd'
  <2>1. CASE SessionRead(n)
    BY <2>1 DEF SessionRead, callVars
  <2>2. CASE SessionArrives(n)
    BY <2>2 DEF SessionArrives, callVars
  <2>3. CASE SessionFails(n)
    BY <2>3 DEF SessionFails, callVars
  <2> QED BY <1>2, <2>1, <2>2, <2>3
<1>3. ASSUME NEW c \in Callers, secureInit(c) \/ secureFetch(c) PROVE ExecutedAtTheEnd'
  BY <1>3 DEF secureInit, secureFetch, Goes
<1>5. ASSUME NEW c \in Callers, SendWithToken(c) PROVE ExecutedAtTheEnd'
  BY <1>5 DEF SendWithToken, Goes
<1>6. ASSUME NEW c \in Callers, Handle(c) PROVE ExecutedAtTheEnd'
  BY <1>6 DEF Handle, Goes
<1>7. ASSUME NEW c \in Callers, Settle(c) PROVE ExecutedAtTheEnd'
  BY <1>7 DEF Settle, Goes
<1>8. ASSUME NEW c \in Callers, Lose(c) PROVE ExecutedAtTheEnd'
  BY <1>8 DEF Lose, Goes
<1>9. CASE UNCHANGED apiVars
  BY <1>9 DEF apiVars
<1> QED BY <1>1, <1>2, <1>3, <1>5, <1>6, <1>7, <1>8, <1>9 DEF ApiNext

\* The invariant is inductive.
LEMMA ApiInductive == ApiInv /\ [ApiNext]_apiVars => ApiInv'
BY ApiTypeStep, TokensStep, ExecutedStep DEF ApiInv

\* However the session is renewed, calls are given up and the backend is restarted, it
\* executes a call at most once (client.ts:81, :86).
THEOREM ExecutionOnce == ApiSpec => []ExecutedOnce
<1>1. ApiInv => ExecutedOnce
  BY DEF ApiInv, ExecutedAtTheEnd, ExecutedOnce
<1> QED BY <1>1, ApiInitial, ApiInductive, PTL DEF ApiSpec

\* A call that is refused twice was refused by two backends: forcing the renewal never
\* brings a token older than the first refusal (client.ts:37, :85).
THEOREM RefusalTwice == ApiSpec => []RefusedTwiceByAnother
<1>1. ApiInv => RefusedTwiceByAnother
  BY DEF ApiInv, TokensInOrder, RefusedTwiceByAnother
<1> QED BY <1>1, ApiInitial, ApiInductive, PTL DEF ApiSpec

HIDE DEF SessionNumbers, CallStates

-----------------------------------------------------------------------------
(* The update dialog *)

\* A notice, a start and the dialog exclude each other, unless one came late.
OneAtATime ==
  ~late => /\ Busy => ~noticeOpen
           /\ ~(progressOpen /\ starting # "no")

\* Jobs are numbered in the order they are made; a status is of a job there has been.
JobsInOrder ==
  /\ mine <= job.id /\ newJob <= job.id /\ kept <= job.id
  /\ mountStatus.id <= job.id /\ polled.id <= job.id /\ updateStatus.id <= job.id
  /\ job.phase = "idle" => job.id = 0
  /\ mountStatus.phase = "idle" => mountStatus.id = 0
  /\ starting = "made" => mine < newJob

\* The job this page has started, while nothing late or cut is in the way.
Followed == mine # 0 /\ ~late /\ ~cut /\ job.id = mine /\ job.phase \in Running

\* What is shown of it, and what a poll brings, says that it runs.
FollowedIsShown ==
  Followed =>
    /\ progressOpen /\ poll # "off"
    /\ updateStatus.id = mine /\ updateStatus.phase \in Running
    /\ poll = "read" => polled.id = mine /\ polled.phase \in Running

\* The dialog can only be closed on an end that is as new as the one the page load found.
KeptIsShown ==
  mount = "settled" /\ kept # 0 /\ ~late =>
    /\ progressOpen \/ ack >= kept
    /\ progressOpen /\ updateStatus.phase \in Ended => updateStatus.id >= kept
    /\ progressOpen /\ poll = "read" /\ polled.phase \in Ended => polled.id >= kept
    /\ starting = "made" => newJob >= kept

DialogInv == DialogTypeOK /\ OneAtATime /\ JobsInOrder /\ FollowedIsShown /\ KeptIsShown

-----------------------------------------------------------------------------
USE DialogAssumption DEF mountVars, startVars, pollVars, historyVars, Running, Ended

\* What the fields of a status can be.
LEMMA StatusFields ==
  ASSUME NEW s \in Status
  PROVE  /\ s.id \in 0..MaxJobs
         /\ s.phase \in {"idle", "null", "undefined"} \cup Running \cup Ended
         /\ s.phase = "null" \/ s.phase = "undefined" => s.id = 0
BY DEF Status, JobStatuses, NoStatus, CutStatus

\* What those of a job can be, and that a job may change its phase.
LEMMA JobFields ==
  ASSUME NEW j \in JobStatuses
  PROVE  /\ j.id \in 0..MaxJobs /\ j.phase \in {"idle"} \cup Running \cup Ended
         /\ \A ph \in Running \cup Ended :
              /\ [j EXCEPT !.phase = ph] \in JobStatuses
              /\ [j EXCEPT !.phase = ph].id = j.id /\ [j EXCEPT !.phase = ph].phase = ph
         /\ j \in Status
BY DEF Status, JobStatuses

\* A job that has just been made is a job, and its status one.
LEMMA NewJob ==
  ASSUME NEW n \in 0..MaxJobs
  PROVE  /\ [id |-> n, phase |-> "cancellable"] \in JobStatuses \cap Status
BY DEF Status, JobStatuses

\* No answer and a cut one are statuses.
LEMMA NoStatuses == NoStatus \in Status /\ CutStatus \in Status
BY DEF Status

\* A page load keeps the types.
LEMMA PageLoadsTyped ==
  ASSUME PageLoads, job' \in JobStatuses, ack' \in 0..MaxJobs PROVE DialogTypeOK'
<1>1. mountStatus' \in Status /\ updateStatus' \in Status /\ polled' \in Status
  BY NoStatuses DEF PageLoads
<1>2. newJob' \in 0..MaxJobs /\ mine' \in 0..MaxJobs /\ kept' \in 0..MaxJobs
  BY DEF PageLoads
<1> QED BY <1>1, <1>2 DEF PageLoads, DialogTypeOK

\* A dialog that closes stops polling.
LEMMA Closes == Openness(FALSE) => progressOpen' = FALSE /\ poll' = "off" /\ polled' = NoStatus
BY DEF Openness

\* One that opens polls at once.
LEMMA Opens ==
  Openness(TRUE) => /\ progressOpen' = TRUE /\ polled' = polled
                    /\ progressOpen => poll' = poll
                    /\ ~progressOpen => poll' = "due"
BY DEF Openness

\* Every step keeps the types.
LEMMA DialogTypeStep == DialogInv /\ [DialogNext]_dialogVars => DialogTypeOK'
<1> SUFFICES ASSUME DialogInv, [DialogNext]_dialogVars PROVE DialogTypeOK'
  OBVIOUS
<1> USE DEF DialogInv, DialogTypeOK
<1>1. CASE JobMoves
  <2>1. PICK ph \in Running \cup Ended : job' = [job EXCEPT !.phase = ph]
    BY <1>1 DEF JobMoves
  <2>2. job' \in JobStatuses
    BY <2>1, JobFields
  <2> QED BY <1>1, <2>2 DEF JobMoves
<1>2. CASE MountRead
  BY <1>2, JobFields, NoStatuses DEF MountRead
<1>3. CASE MountSettles
  <2>1. mountStatus.id \in 0..MaxJobs
    BY StatusFields
  <2> QED BY <1>3, <2>1, NoStatuses DEF MountSettles, Openness, Busy
<1>4. CASE onCheckUpdate
  BY <1>4 DEF onCheckUpdate, applyCheckResult, Busy
<1>5. CASE onUpdate
  BY <1>5, NoStatuses DEF onUpdate
<1>6. CASE StartHandled
  <2>1. CASE job.phase \in Running \/ job.id = MaxJobs
    BY <1>6, <2>1 DEF StartHandled
  <2>2. CASE ~(job.phase \in Running \/ job.id = MaxJobs)
    <3>1. job' = [id |-> job.id + 1, phase |-> "cancellable"] /\ newJob' = job.id + 1 /\ starting' = "made"
      BY <1>6, <2>2 DEF StartHandled
    <3>2. job.id + 1 \in 0..MaxJobs
      <4>1. job.id \in 0..MaxJobs
        BY JobFields
      <4> QED BY <2>2, <4>1
    <3>3. job' \in JobStatuses
      BY <3>1, <3>2, NewJob
    <3> QED BY <1>6, <3>1, <3>2, <3>3 DEF StartHandled
  <2> QED BY <2>1, <2>2
<1>7. CASE StartAnswered
  BY <1>7, NewJob, NoStatuses DEF StartAnswered, Openness
<1>8. CASE StartFailed
  <2>1. progressOpen' = FALSE /\ poll' = "off" /\ polled' = NoStatus
    BY <1>8, Closes DEF StartFailed
  <2>2. starting' = "no" /\ newJob' \in 0..MaxJobs
    BY <1>8 DEF StartFailed
  <2>3. UNCHANGED <<job, mountVars, canUpdate, noticeOpen, mine, updateStatus, ack, historyVars>>
    BY <1>8 DEF StartFailed
  <2> QED BY <2>1, <2>2, <2>3, NoStatuses
<1>9. CASE PollSent
  BY <1>9 DEF PollSent
<1>10. CASE PollRead
  BY <1>10, JobFields, NoStatuses DEF PollRead
<1>11. CASE PollArrives
  BY <1>11, NoStatuses DEF PollArrives
<1>12. CASE PollFails
  BY <1>12, NoStatuses DEF PollFails
<1>13. CASE onCancelUpdate
  <2>1. job' = [job EXCEPT !.phase = "cancelled"]
    BY <1>13 DEF onCancelUpdate
  <2>2. job' \in JobStatuses
    BY <2>1, JobFields
  <2> QED BY <1>13, <2>2 DEF onCancelUpdate
<1>14. CASE closeProgress
  <2>1. updateStatus.id \in 0..MaxJobs
    BY StatusFields
  <2>2. ack' \in 0..MaxJobs /\ job' = job
    BY <1>14, <2>1 DEF closeProgress
  <2>3. CASE updateStatus.phase = "completed"
    BY <1>14, <2>2, <2>3, PageLoadsTyped DEF closeProgress
  <2>4. CASE updateStatus.phase # "completed"
    BY <1>14, <2>2, <2>4, NoStatuses, Closes DEF closeProgress
  <2> QED BY <2>3, <2>4
<1>15. CASE showNotice
  BY <1>15 DEF showNotice, Busy
<1>16. CASE PageReload
  BY <1>16, PageLoadsTyped DEF PageReload
<1>17. CASE UNCHANGED dialogVars
  BY <1>17 DEF dialogVars
<1> QED
  BY <1>1, <1>2, <1>3, <1>4, <1>5, <1>6, <1>7, <1>8, <1>9, <1>10, <1>11, <1>12, <1>13, <1>14,
     <1>15, <1>16, <1>17 DEF DialogNext

\* No step shows two dialogs at once.
LEMMA OneAtATimeStep == DialogInv /\ [DialogNext]_dialogVars => OneAtATime'
<1> SUFFICES ASSUME DialogInv, [DialogNext]_dialogVars PROVE OneAtATime'
  OBVIOUS
<1> USE DEF DialogInv, OneAtATime, Busy, DialogTypeOK
<1>1. CASE JobMoves
  BY <1>1 DEF JobMoves
<1>2. CASE MountRead
  BY <1>2 DEF MountRead
<1>3. CASE MountSettles
  BY <1>3 DEF MountSettles, Openness, Busy
<1>4. CASE onCheckUpdate
  BY <1>4 DEF onCheckUpdate, applyCheckResult, Busy
<1>5. CASE onUpdate
  BY <1>5 DEF onUpdate, UpdateOffered
<1>6. CASE StartHandled
  BY <1>6 DEF StartHandled
<1>7. CASE StartAnswered
  BY <1>7 DEF StartAnswered, Openness
<1>8. CASE StartFailed
  BY <1>8 DEF StartFailed, Openness
<1>9. CASE PollSent
  BY <1>9 DEF PollSent
<1>10. CASE PollRead
  BY <1>10 DEF PollRead
<1>11. CASE PollArrives
  BY <1>11 DEF PollArrives
<1>12. CASE PollFails
  BY <1>12 DEF PollFails
<1>13. CASE onCancelUpdate
  BY <1>13 DEF onCancelUpdate, CancelOffered
<1>14. CASE closeProgress
  BY <1>14 DEF closeProgress, CloseOffered, PageLoads, Openness, updateFinished
<1>15. CASE showNotice
  BY <1>15 DEF showNotice, Busy
<1>16. CASE PageReload
  BY <1>16 DEF PageReload, PageLoads
<1>17. CASE UNCHANGED dialogVars
  BY <1>17 DEF dialogVars
<1> QED
  BY <1>1, <1>2, <1>3, <1>4, <1>5, <1>6, <1>7, <1>8, <1>9, <1>10, <1>11, <1>12, <1>13, <1>14,
     <1>15, <1>16, <1>17 DEF DialogNext

\* What the phase and the number of a status are, for the steps below.
LEMMA Numbers ==
  ASSUME DialogTypeOK
  PROVE  /\ job.id \in Nat /\ mine \in Nat /\ newJob \in Nat /\ kept \in Nat /\ ack \in Nat
         /\ mountStatus.id \in Nat /\ polled.id \in Nat /\ updateStatus.id \in Nat
<1>1. job.id \in 0..MaxJobs
  BY JobFields DEF DialogTypeOK
<1>2. /\ mountStatus.id \in 0..MaxJobs /\ polled.id \in 0..MaxJobs
      /\ updateStatus.id \in 0..MaxJobs
  BY StatusFields DEF DialogTypeOK
<1> QED BY <1>1, <1>2 DEF DialogTypeOK

\* The statuses that are of no job say so.
LEMMA Constants ==
  /\ NoStatus.id = 0 /\ NoStatus.phase = "null"
  /\ CutStatus.id = 0 /\ CutStatus.phase = "undefined"
BY DEF NoStatus, CutStatus

\* A job that moves on keeps its number and touches nothing of the page.
LEMMA Moves ==
  ASSUME DialogTypeOK, JobMoves \/ onCancelUpdate
  PROVE  /\ job'.id = job.id /\ job'.phase # "idle" /\ job.phase \in Running
         /\ JobMoves => job'.phase \in Running \cup Ended
         /\ UNCHANGED <<mountVars, canUpdate, noticeOpen, startVars, progressOpen,
                        updateStatus, pollVars, ack, historyVars>>
<1>1. PICK ph \in Running \cup Ended : job' = [job EXCEPT !.phase = ph] /\ job.phase \in Running
  BY DEF JobMoves, onCancelUpdate
<1>2. job'.id = job.id /\ job'.phase = ph
  BY <1>1, JobFields DEF DialogTypeOK
<1> QED BY <1>1, <1>2 DEF JobMoves, onCancelUpdate

\* What the settled page load leaves: the dialog on its status, or everything as it was.
LEMMA Settles ==
  ASSUME DialogTypeOK, MountSettles
  PROVE  /\ mount' = "settled" /\ mountStatus' = NoStatus /\ kept' = mountStatus.id
         /\ late' = (late \/ Busy)
         /\ UNCHANGED <<job, starting, newJob, mine, ack, cut>>
         /\ \/ /\ updateStatus' = mountStatus /\ progressOpen' = TRUE /\ noticeOpen' = FALSE
               /\ polled' = polled /\ (~progressOpen => poll' = "due")
            \/ /\ UNCHANGED <<updateStatus, progressOpen, poll, polled>>
               /\ \/ mountStatus.id = 0 \/ mountStatus.id = ack \/ mountStatus.phase = "idle"
BY Opens DEF MountSettles

\* No step makes a status of a job there has not been.
LEMMA JobsInOrderStep == DialogInv /\ [DialogNext]_dialogVars => JobsInOrder'
<1> SUFFICES ASSUME DialogInv, [DialogNext]_dialogVars PROVE JobsInOrder'
  OBVIOUS
<1> USE DEF DialogInv, JobsInOrder
<1>1. CASE JobMoves
  BY <1>1, Moves
<1>2. CASE MountRead
  BY <1>2, Numbers, Constants DEF MountRead
<1>3. CASE MountSettles
  <2>1. /\ mountStatus' = NoStatus /\ kept' = mountStatus.id
        /\ UNCHANGED <<job, starting, newJob, mine>> /\ polled' = polled
        /\ updateStatus' = mountStatus \/ updateStatus' = updateStatus
    BY <1>3, Settles
  <2>2. mountStatus'.id = 0 /\ mountStatus'.phase # "idle" /\ job'.id = job.id /\ job'.phase = job.phase
    BY <2>1, Constants
  <2>3. polled'.id = polled.id /\ (updateStatus'.id = mountStatus.id \/ updateStatus'.id = updateStatus.id)
    BY <2>1
  <2>4. mine' = mine /\ newJob' = newJob /\ starting' = starting /\ kept' = mountStatus.id
    BY <2>1
  <2>5. mine' <= job'.id /\ newJob' <= job'.id /\ kept' <= job'.id
    BY <2>2, <2>4
  <2>6. mountStatus'.id <= job'.id /\ polled'.id <= job'.id
    BY <2>2, <2>3, Numbers
  <2>7. updateStatus'.id <= job'.id
    BY <2>2, <2>3
  <2> QED BY <2>2, <2>4, <2>5, <2>6, <2>7
<1>4. CASE onCheckUpdate
  BY <1>4, Numbers, Constants DEF onCheckUpdate, applyCheckResult, Busy
<1>5. CASE onUpdate
  BY <1>5, Numbers, Constants DEF onUpdate, UpdateOffered
<1>6. CASE StartHandled
  <2>1. CASE job.phase \in Running \/ job.id = MaxJobs
    BY <1>6, <2>1 DEF StartHandled
  <2>2. CASE ~(job.phase \in Running \/ job.id = MaxJobs)
    <3>1. job' = [id |-> job.id + 1, phase |-> "cancellable"] /\ newJob' = job.id + 1
      BY <1>6, <2>2 DEF StartHandled
    <3>2. job'.id = job.id + 1 /\ job'.phase = "cancellable"
      BY <3>1
    <3>3. UNCHANGED <<mountVars, mine, updateStatus, pollVars>>
      BY <1>6 DEF StartHandled
    <3> QED BY <3>1, <3>2, <3>3, Numbers
  <2> QED BY <2>1, <2>2
<1>7. CASE StartAnswered
  BY <1>7, Numbers, Constants, Opens DEF StartAnswered
<1>8. CASE StartFailed
  BY <1>8, Numbers, Constants, Closes DEF StartFailed
<1>9. CASE PollSent
  BY <1>9, Numbers, Constants DEF PollSent
<1>10. CASE PollRead
  BY <1>10, Numbers, Constants DEF PollRead
<1>11. CASE PollArrives
  BY <1>11, Numbers, Constants DEF PollArrives
<1>12. CASE PollFails
  BY <1>12, Numbers, Constants DEF PollFails
<1>13. CASE onCancelUpdate
  BY <1>13, Moves
<1>14. CASE closeProgress
  BY <1>14, Numbers, Constants DEF closeProgress, CloseOffered, PageLoads, Openness, updateFinished
<1>15. CASE showNotice
  BY <1>15, Numbers, Constants DEF showNotice, Busy
<1>16. CASE PageReload
  BY <1>16, Numbers, Constants DEF PageReload, PageLoads
<1>17. CASE UNCHANGED dialogVars
  BY <1>17 DEF dialogVars
<1> QED
  BY <1>1, <1>2, <1>3, <1>4, <1>5, <1>6, <1>7, <1>8, <1>9, <1>10, <1>11, <1>12, <1>13, <1>14,
     <1>15, <1>16, <1>17 DEF DialogNext

\* No step loses sight of the followed job.
LEMMA FollowedStep == DialogInv /\ [DialogNext]_dialogVars => FollowedIsShown'
<1> SUFFICES ASSUME DialogInv, [DialogNext]_dialogVars PROVE FollowedIsShown'
  OBVIOUS
<1> USE Constants DEF DialogInv, FollowedIsShown, Followed, OneAtATime, Busy, JobsInOrder, DialogTypeOK
<1>1. CASE JobMoves
  BY <1>1, Moves
<1>2. CASE MountRead
  BY <1>2 DEF MountRead
<1>3. CASE MountSettles
  BY <1>3, Settles
<1>4. CASE onCheckUpdate
  BY <1>4 DEF onCheckUpdate, applyCheckResult, Busy
<1>5. CASE onUpdate
  BY <1>5 DEF onUpdate, UpdateOffered
<1>6. CASE StartHandled
  <2>1. CASE job.phase \in Running \/ job.id = MaxJobs
    BY <1>6, <2>1 DEF StartHandled
  <2>2. CASE ~(job.phase \in Running \/ job.id = MaxJobs)
    <3>1. job' = [id |-> job.id + 1, phase |-> "cancellable"] /\ mine' = mine
      BY <1>6, <2>2 DEF StartHandled
    <3>2. job'.id = job.id + 1
      BY <3>1
    <3>3. job'.id # mine'
      BY <3>1, <3>2, Numbers
    <3> QED BY <3>3
  <2> QED BY <2>1, <2>2
<1>7. CASE StartAnswered
  BY <1>7, Numbers, Opens DEF StartAnswered
<1>8. CASE StartFailed
  BY <1>8, Closes DEF StartFailed
<1>9. CASE PollSent
  BY <1>9 DEF PollSent
<1>10. CASE PollRead
  BY <1>10 DEF PollRead
<1>11. CASE PollArrives
  BY <1>11 DEF PollArrives
<1>12. CASE PollFails
  BY <1>12 DEF PollFails
<1>13. CASE onCancelUpdate
  BY <1>13, Moves DEF onCancelUpdate
<1>14. CASE closeProgress
  BY <1>14 DEF closeProgress, CloseOffered, PageLoads, Openness, updateFinished
<1>15. CASE showNotice
  BY <1>15 DEF showNotice, Busy
<1>16. CASE PageReload
  BY <1>16 DEF PageReload, PageLoads
<1>17. CASE UNCHANGED dialogVars
  BY <1>17 DEF dialogVars
<1> QED
  BY <1>1, <1>2, <1>3, <1>4, <1>5, <1>6, <1>7, <1>8, <1>9, <1>10, <1>11, <1>12, <1>13, <1>14,
     <1>15, <1>16, <1>17 DEF DialogNext

\* No step hides an end nobody acknowledged.
LEMMA KeptStep == DialogInv /\ [DialogNext]_dialogVars => KeptIsShown'
<1> SUFFICES ASSUME DialogInv, [DialogNext]_dialogVars PROVE KeptIsShown'
  OBVIOUS
<1> USE Constants, Numbers DEF DialogInv, KeptIsShown, OneAtATime, Busy, JobsInOrder, DialogTypeOK
<1>1. CASE JobMoves
  BY <1>1, Moves
<1>2. CASE MountRead
  BY <1>2 DEF MountRead
<1>3. CASE MountSettles
  <2> SUFFICES ASSUME kept' # 0, ~late' PROVE KeptIsShown'
    OBVIOUS
  <2>1. ~progressOpen /\ starting' = "no" /\ kept' = mountStatus.id /\ UNCHANGED <<ack, polled>>
    BY <1>3, Settles
  <2>2. CASE updateStatus' = mountStatus /\ progressOpen' = TRUE /\ poll' = "due"
    BY <2>1, <2>2, Numbers
  <2>3. CASE /\ progressOpen' = progressOpen
             /\ mountStatus.id = 0 \/ mountStatus.id = ack \/ mountStatus.phase = "idle"
    BY <2>1, <2>3, Numbers
  <2> QED BY <1>3, <2>1, <2>2, <2>3, Settles
<1>4. CASE onCheckUpdate
  BY <1>4 DEF onCheckUpdate, applyCheckResult, Busy
<1>5. CASE onUpdate
  BY <1>5 DEF onUpdate, UpdateOffered
<1>6. CASE StartHandled
  <2>1. CASE job.phase \in Running \/ job.id = MaxJobs
    BY <1>6, <2>1 DEF StartHandled
  <2>2. CASE ~(job.phase \in Running \/ job.id = MaxJobs)
    <3>1. newJob' = job.id + 1 /\ UNCHANGED <<mountVars, progressOpen, updateStatus, pollVars, ack, historyVars>>
      BY <1>6, <2>2 DEF StartHandled
    <3> QED BY <3>1, Numbers
  <2> QED BY <2>1, <2>2
<1>7. CASE StartAnswered
  BY <1>7, Numbers, Opens DEF StartAnswered
<1>8. CASE StartFailed
  BY <1>8, Closes DEF StartFailed
<1>9. CASE PollSent
  BY <1>9 DEF PollSent
<1>10. CASE PollRead
  BY <1>10 DEF PollRead
<1>11. CASE PollArrives
  BY <1>11 DEF PollArrives
<1>12. CASE PollFails
  BY <1>12 DEF PollFails
<1>13. CASE onCancelUpdate
  BY <1>13, Moves DEF onCancelUpdate
<1>14. CASE closeProgress
  BY <1>14 DEF closeProgress, CloseOffered, PageLoads, Openness, updateFinished
<1>15. CASE showNotice
  BY <1>15 DEF showNotice, Busy
<1>16. CASE PageReload
  BY <1>16 DEF PageReload, PageLoads
<1>17. CASE UNCHANGED dialogVars
  BY <1>17 DEF dialogVars
<1> QED
  BY <1>1, <1>2, <1>3, <1>4, <1>5, <1>6, <1>7, <1>8, <1>9, <1>10, <1>11, <1>12, <1>13, <1>14,
     <1>15, <1>16, <1>17 DEF DialogNext

\* At the start the page loads and shows nothing.
LEMMA DialogInitial == DialogInit => DialogInv
<1> SUFFICES ASSUME DialogInit PROVE DialogInv
  OBVIOUS
<1>1. job \in JobStatuses /\ (job.phase = "idle" => job.id = 0)
  <2>1. CASE job = [id |-> 0, phase |-> "idle"]
    <3>1. 0 \in 0..MaxJobs
      OBVIOUS
    <3> QED BY <2>1, <3>1 DEF JobStatuses
  <2>2. CASE job \in [id : {1}, phase : Running \cup Ended]
    <3>1. 1 \in 0..MaxJobs
      OBVIOUS
    <3>2. job = [id |-> job.id, phase |-> job.phase] /\ job.id = 1 /\ job.phase \in Running \cup Ended
      BY <2>2
    <3> QED BY <3>1, <3>2 DEF JobStatuses
  <2> QED BY <2>1, <2>2 DEF DialogInit
<1>2. job.id \in Nat
  <2>1. job.id \in 0..MaxJobs
    BY <1>1, JobFields
  <2> QED BY <2>1
<1>3. DialogTypeOK
  <2>1. mountStatus \in Status /\ updateStatus \in Status /\ polled \in Status
    BY NoStatuses DEF DialogInit
  <2>2. newJob \in 0..MaxJobs /\ mine \in 0..MaxJobs /\ kept \in 0..MaxJobs /\ ack \in 0..MaxJobs
    BY DEF DialogInit
  <2> QED BY <1>1, <2>1, <2>2 DEF DialogInit, DialogTypeOK
<1>4. OneAtATime /\ KeptIsShown /\ FollowedIsShown
  BY DEF DialogInit, OneAtATime, Busy, KeptIsShown, FollowedIsShown, Followed
<1>5. JobsInOrder
  BY <1>1, <1>2, Constants DEF DialogInit, JobsInOrder
<1> QED BY <1>3, <1>4, <1>5 DEF DialogInv

\* The invariant is inductive.
LEMMA DialogInductive == DialogInv /\ [DialogNext]_dialogVars => DialogInv'
BY DialogTypeStep, OneAtATimeStep, JobsInOrderStep, FollowedStep, KeptStep DEF DialogInv

\* A job this page has started is followed as long as it runs: the dialog is open and
\* another poll is to come (UpdateStatus.tsx:151, :156).
THEOREM StartFollowed == DialogSpec => []StartedIsFollowed
<1>1. DialogInv => StartedIsFollowed
  BY DEF DialogInv, FollowedIsShown, Followed, StartedIsFollowed
<1> QED BY <1>1, DialogInitial, DialogInductive, PTL DEF DialogSpec

\* The end of a job that a page load finds stays on the screen until it is acknowledged
\* (UpdateStatus.tsx:124, :271).
THEOREM EndShown == DialogSpec => []EndIsShownUntilAcknowledged
<1>1. DialogInv => EndIsShownUntilAcknowledged
  BY DEF DialogInv, KeptIsShown, EndIsShownUntilAcknowledged
<1> QED BY <1>1, DialogInitial, DialogInductive, PTL DEF DialogSpec

-----------------------------------------------------------------------------
(* The probes of the app shell *)

\* A reconnection is only asked for over the offline alert, and its first question ends
\* before anything else can show the service again; it never polls more than MaxPolls times.
AskedOffline ==
  /\ reconnect # "no" => loading = "done"
  /\ reconnect = "ask" => ~serviceOnline
  /\ reconnect = "poll" => polls < MaxPolls

ShellInv == ShellTypeOK /\ OfflineAfterTwoFailures /\ AskedOffline

-----------------------------------------------------------------------------
\* The page is loading and nothing has failed.
LEMMA ShellInitial == ShellInit => ShellInv
<1> SUFFICES ASSUME ShellInit PROVE ShellInv
  OBVIOUS
<1>1. ShellTypeOK
  <2>1. slow \in 0..MaxSlow /\ polls \in 0..MaxPolls /\ failures \in 0..2
    BY ShellAssumption DEF ShellInit
  <2> QED BY <2>1 DEF ShellInit, ShellTypeOK
<1>2. OfflineAfterTwoFailures
  BY DEF ShellInit, OfflineAfterTwoFailures
<1>3. AskedOffline
  BY DEF ShellInit, AskedOffline
<1> QED BY <1>1, <1>2, <1>3 DEF ShellInv

\* What the reconnection that waits for a probe does next.
LEMMA Continues ==
  ASSUME ShellTypeOK, AskedOffline, NEW ok \in BOOLEAN, Continue(ok)
  PROVE  /\ reconnect' \in {"no", "poll", "sleep"} /\ polls' \in 0..MaxPolls
         /\ reconnect' # "no" => reconnect # "no"
         /\ reconnect' = "poll" => polls' < MaxPolls
<1> USE ShellAssumption DEF ShellTypeOK, AskedOffline
<1>1. CASE reconnect \in {"ask", "poll"} /\ ok
  <2>1. reconnect' = "no" /\ polls' = 0
    BY <1>1 DEF Continue
  <2> QED BY <1>1, <2>1
<1>2. CASE reconnect = "ask" /\ ~ok
  <2>1. reconnect' = "poll" /\ polls' = 0
    BY <1>2 DEF Continue
  <2> QED BY <1>2, <2>1
<1>3. CASE reconnect = "poll" /\ ~ok
  <2>1. reconnect' = "sleep" /\ polls' = polls + 1
    BY <1>3 DEF Continue
  <2> QED BY <1>3, <2>1
<1>4. CASE reconnect \in {"no", "sleep"}
  <2>1. UNCHANGED <<reconnect, polls>>
    BY <1>4 DEF Continue
  <2> QED BY <1>4, <2>1
<1> QED BY <1>1, <1>2, <1>3, <1>4

\* The invariant is inductive.
LEMMA ShellInductive == ShellInv /\ [ShellNext]_shellVars => ShellInv'
<1> SUFFICES ASSUME ShellInv, [ShellNext]_shellVars PROVE ShellInv'
  OBVIOUS
<1> USE ShellAssumption DEF ShellInv, ShellTypeOK, OfflineAfterTwoFailures, AskedOffline
<1>1. CASE ServiceChanges
  BY <1>1 DEF ServiceChanges
<1>2. CASE LoadAnswered
  BY <1>2 DEF LoadAnswered, Succeeds, Fails
<1>3. CASE LoadSettles
  <2>1. serviceOnline' <=> loading = "ok"
    BY <1>3 DEF LoadSettles
  <2> QED BY <1>3, <2>1 DEF LoadSettles
<1>4. CASE Tick
  BY <1>4 DEF Tick
<1>5. CASE ProbeSucceeds
  <2>1. Continue(TRUE) /\ slow' = slow
    BY <1>5 DEF ProbeSucceeds, Succeeds
  <2>2. /\ reconnect' \in {"no", "poll", "sleep"} /\ polls' \in 0..MaxPolls
        /\ reconnect' # "no" => reconnect # "no"
        /\ reconnect' = "poll" => polls' < MaxPolls
    BY <2>1, Continues
  <2>3. /\ failures' = 0 /\ serviceOnline' = TRUE /\ serviceError' = "none"
        /\ probing' = FALSE /\ preserve' = FALSE /\ UNCHANGED <<alive, loading>>
    BY <1>5 DEF ProbeSucceeds
  <2>4. OfflineAfterTwoFailures'
    BY <2>3
  <2>5. ShellTypeOK'
    <3>1. /\ alive' \in BOOLEAN /\ probing' \in BOOLEAN /\ preserve' \in BOOLEAN
          /\ serviceOnline' \in BOOLEAN
      BY <2>3
    <3>2. slow' \in 0..MaxSlow /\ failures' \in 0..2
      BY <2>1, <2>3
    <3> QED BY <2>2, <2>3, <3>1, <3>2
  <2>6. AskedOffline'
    BY <2>2, <2>3
  <2> QED BY <2>4, <2>5, <2>6
<1>6. CASE ProbeFails
  <2>1. Continue(FALSE) /\ Fails
    BY <1>6, Zenon DEF ProbeFails
  <2>9. slow' \in 0..MaxSlow
    BY <2>1 DEF Fails
  <2>2. failures' = IF failures = 0 THEN 1 ELSE 2
    BY <1>6 DEF ProbeFails
  <2>3. serviceOnline' <=> serviceOnline /\ failures' < 2 /\ ~PollsOn
    BY <1>6, <2>2 DEF ProbeFails
  <2>4. serviceOnline' \in BOOLEAN /\ probing' \in BOOLEAN /\ preserve' \in BOOLEAN
    BY <1>6 DEF ProbeFails, PollsOn
  <2>5. serviceError' \in {"none", "disconnected", "reconnecting", "gaveUp"}
    BY <1>6 DEF ProbeFails
  <2>6. failures' \in 0..2 /\ (serviceOnline' <=> failures' < 2)
    BY <2>2, <2>3 DEF PollsOn
  <2>7. UNCHANGED <<alive, loading>>
    BY <1>6 DEF ProbeFails
  <2>8. /\ reconnect' \in {"no", "poll", "sleep"} /\ polls' \in 0..MaxPolls
        /\ reconnect' # "no" => reconnect # "no"
        /\ reconnect' = "poll" => polls' < MaxPolls
    BY <2>1, Continues
  <2> QED BY <2>4, <2>5, <2>6, <2>7, <2>8, <2>9
<1>7. CASE restartBackendAndReconnect
  BY <1>7 DEF restartBackendAndReconnect, ReconnectOffered
<1>8. CASE PollAgain
  <2>1. CASE polls < MaxPolls
    BY <1>8, <2>1 DEF PollAgain
  <2>2. CASE ~(polls < MaxPolls)
    BY <1>8, <2>2 DEF PollAgain
  <2> QED BY <2>1, <2>2
<1>9. CASE UNCHANGED shellVars
  BY <1>9 DEF shellVars
<1> QED BY <1>1, <1>2, <1>3, <1>4, <1>5, <1>6, <1>7, <1>8, <1>9 DEF ShellNext

\* The service is shown as gone exactly when two probes in a row have failed, or the page
\* load and no probe since (App.tsx:225, :317).
THEOREM ShownOffline == ShellSpec => []OfflineAfterTwoFailures
<1>1. ShellInv => OfflineAfterTwoFailures
  BY DEF ShellInv
<1> QED BY <1>1, ShellInitial, ShellInductive, PTL DEF ShellSpec
=============================================================================
