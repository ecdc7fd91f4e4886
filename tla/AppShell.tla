------------------------------- MODULE AppShell -------------------------------
(***************************************************************************)
(* Whether the page takes the local service for running                    *)
(* (src/frontend/src/App.tsx): the health that is asked for while the page *)
(* loads, a probe every 5 s, and the button that starts the service and    *)
(* polls until it is ready.  One probe is out at a time; whoever wants     *)
(* another joins it.                                                       *)
(***************************************************************************)
EXTENDS Naturals

CONSTANTS
  MaxPolls,       \* the 30 attempts of pollBackendUntilReady
  MaxSlow         \* bound: probes a running service answers too late

ASSUME ShellAssumption == MaxPolls \in Nat \ {0} /\ MaxSlow \in Nat

VARIABLES
  alive,          \* the service runs
  slow,           \* probes it answered too late so far
  loading,        \* the requests of the page load: "asked", "ok", "bad", "done"
  probing,        \* healthProbeInFlight
  preserve,       \* preserveReconnectMessage of the one who started the probe
  failures,       \* healthProbeFailures; two and more are one
  serviceOnline,
  serviceError,
  reconnect,      \* restartBackendAndReconnect: "no", "ask", "poll", "sleep"
  polls           \* attempts so far

shellVars == <<alive, slow, loading, probing, preserve, failures, serviceOnline,
               serviceError, reconnect, polls>>

ShellInit ==
  /\ alive \in BOOLEAN /\ slow = 0 /\ loading = "asked"
  /\ probing = FALSE /\ preserve = FALSE
  /\ failures = 0 /\ serviceOnline = TRUE /\ serviceError = "none"
  /\ reconnect = "no" /\ polls = 0

-----------------------------------------------------------------------------
ServiceChanges ==
  /\ alive' = ~alive
  /\ UNCHANGED <<slow, loading, probing, preserve, failures, serviceOnline, serviceError,
                 reconnect, polls>>

\* A request succeeds when the service runs, unless it is too slow.
Succeeds == alive /\ UNCHANGED slow
Fails == \/ ~alive /\ UNCHANGED slow
         \/ alive /\ slow < MaxSlow /\ slow' = slow + 1

\* The page load has its own request; what it brought counts when the catalog and the
\* status of the platform are there too, however long that takes.
LoadAnswered ==
  /\ loading = "asked"
  /\ \/ Succeeds /\ loading' = "ok"
     \/ Fails /\ loading' = "bad"
  /\ UNCHANGED <<alive, probing, preserve, failures, serviceOnline, serviceError,
                 reconnect, polls>>

\* Slip: the failures counted meanwhile stay.
LoadSettlesOnly ==
  /\ loading \in {"ok", "bad"} /\ loading' = "done"
  /\ serviceOnline' = (loading = "ok")
  /\ serviceError' = IF loading = "ok" THEN "none" ELSE "disconnected"
  /\ UNCHANGED <<alive, slow, probing, preserve, failures, reconnect, polls>>

LoadSettles ==
  /\ loading \in {"ok", "bad"} /\ loading' = "done"
  /\ failures' = IF loading = "ok" THEN 0 ELSE 2
  /\ serviceOnline' = (loading = "ok")
  /\ serviceError' = IF loading = "ok" THEN "none" ELSE "disconnected"
  /\ UNCHANGED <<alive, slow, probing, preserve, reconnect, polls>>

\* Slip: the page probes while it takes the service for running.
TickWhileOnline ==
  /\ serviceOnline /\ ~probing /\ probing' = TRUE /\ preserve' = FALSE
  /\ UNCHANGED <<alive, slow, loading, failures, serviceOnline, serviceError, reconnect, polls>>

\* The interval.
Tick ==
  /\ ~probing /\ probing' = TRUE /\ preserve' = FALSE
  /\ UNCHANGED <<alive, slow, loading, failures, serviceOnline, serviceError, reconnect, polls>>

\* The continuation of the reconnection that waits for this probe.
Continue(ok) ==
  CASE reconnect \in {"ask", "poll"} /\ ok -> reconnect' = "no" /\ polls' = 0
    [] reconnect = "ask" /\ ~ok -> reconnect' = "poll" /\ polls' = 0
    [] reconnect = "poll" /\ ~ok -> reconnect' = "sleep" /\ polls' = polls + 1
    [] OTHER -> UNCHANGED <<reconnect, polls>>

\* After the first question the poll begins at once, with a probe of its own.
PollsOn == reconnect = "ask"

ProbeSucceeds ==
  /\ probing /\ Succeeds
  /\ failures' = 0 /\ serviceOnline' = TRUE /\ serviceError' = "none"
  /\ probing' = FALSE /\ preserve' = FALSE /\ Continue(TRUE)
  /\ UNCHANGED <<alive, loading>>

ProbeFails ==
  /\ probing /\ Fails
  /\ LET more == IF failures = 0 THEN 1 ELSE 2
     IN  /\ failures' = more
         /\ serviceOnline' = (serviceOnline /\ more < 2 /\ ~PollsOn)
         /\ serviceError' = IF PollsOn THEN "reconnecting"
                            ELSE IF more = 2 /\ ~preserve THEN "disconnected"
                            ELSE serviceError
  /\ probing' = PollsOn /\ preserve' = PollsOn /\ Continue(FALSE)
  /\ UNCHANGED <<alive, loading>>

\* The button of the offline alert.
ReconnectOffered == loading = "done" /\ ~serviceOnline /\ reconnect = "no"

restartBackendAndReconnect ==
  /\ ReconnectOffered /\ reconnect' = "ask"
  /\ probing' = TRUE /\ preserve' = IF probing THEN preserve ELSE TRUE
  /\ UNCHANGED <<alive, slow, loading, failures, serviceOnline, serviceError, polls>>

\* pollBackendUntilReady, a second later; after the last attempt it gives up.
PollAgain ==
  /\ reconnect = "sleep"
  /\ IF polls < MaxPolls
     THEN /\ reconnect' = "poll" /\ UNCHANGED <<polls, serviceError>>
          /\ probing' = TRUE /\ preserve' = IF probing THEN preserve ELSE TRUE
     ELSE /\ reconnect' = "no" /\ polls' = 0 /\ serviceError' = "gaveUp"
          /\ UNCHANGED <<probing, preserve>>
  /\ UNCHANGED <<alive, slow, loading, failures, serviceOnline>>

ShellNext ==
  \/ ServiceChanges \/ LoadAnswered \/ LoadSettles \/ Tick \/ ProbeSucceeds \/ ProbeFails
  \/ restartBackendAndReconnect \/ PollAgain

\* The interval fires and a probe ends within 3 s; the service, the user and the answers
\* to the page load do what they want.
ShellFairness == WF_shellVars(Tick) /\ WF_shellVars(ProbeSucceeds \/ ProbeFails)

ShellSpec == ShellInit /\ [][ShellNext]_shellVars /\ ShellFairness

-----------------------------------------------------------------------------
(* Properties *)

ShellTypeOK ==
  /\ alive \in BOOLEAN /\ slow \in 0..MaxSlow
  /\ loading \in {"asked", "ok", "bad", "done"}
  /\ probing \in BOOLEAN /\ preserve \in BOOLEAN
  /\ failures \in 0..2 /\ serviceOnline \in BOOLEAN
  /\ serviceError \in {"none", "disconnected", "reconnecting", "gaveUp"}
  /\ reconnect \in {"no", "ask", "poll", "sleep"} /\ polls \in 0..MaxPolls

\* The service is shown as gone exactly when two probes in a row have failed, or the
\* page load and no probe since: neither the late answer of the page load nor a
\* reconnection leaves a count that contradicts what is shown (App.tsx:225, :317).
OfflineAfterTwoFailures == serviceOnline <=> failures < 2

\* A service that comes back and stays is shown again, without a reload and whatever a
\* reconnection is doing (App.tsx:242, :324).
OnlineAgain == <>[]alive => <>[]serviceOnline
=============================================================================
