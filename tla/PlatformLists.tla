----------------------------- MODULE PlatformLists -----------------------------
(***************************************************************************)
(* The plugins and the history of the platform on the page                 *)
(* (src/frontend/src/App.tsx, platform/ScriptManager.tsx,                  *)
(* platform/HistoryView.tsx): loaded with the catalog, loaded again after  *)
(* a switch of a plugin and after a tool has run, and changed in place by  *)
(* what the user did.  Any of these requests may be out at once, and any   *)
(* may fail, before or after the backend has done what it asks, or while   *)
(* it still does it.  An answer whose body cannot be read is an empty one  *)
(* (client.ts:122): a list that is fetched with it is empty, and no        *)
(* failure, while a change that is answered with it has failed.            *)
(***************************************************************************)
EXTENDS Naturals, FiniteSets

CONSTANTS
  Plugins, UserPlugins,  \* those that can be mounted; the user's own among them
  Unverified,            \* those a mount of asks for confirmation
  Runs,                  \* runs of tools
  MaxClicks              \* bound: what the user starts

ASSUME ListsAssumption ==
  UserPlugins \subseteq Plugins /\ Unverified \subseteq Plugins /\ MaxClicks \in Nat

VARIABLES
  mounted, stored,  \* the backend: plugins in the Cadence menu, runs in the history
  plugins,          \* on the page: "absent", "off" or "on"
  historyRuns,
  catalogError,     \* the lists the warning names
  pageLoading,      \* nothing has been loaded
  updating,         \* plugins whose switch spins
  refreshing,       \* the button of the plugin page spins
  asking,           \* plugins whose Popconfirm is open
  traffic,          \* requests in flight
  givenUp,          \* requests the page has given up and the backend has yet to do
  clicks,           \* what of MaxClicks is used; the number of the last request
  mixed,            \* lists whose requests, of those still out, have been out with another one
                    \* (history variable)
  doubtful          \* lists that were mixed, or lost an answer, or were emptied by one that
                    \* was cut, and were not fetched alone since (history variable)

doubtVars == <<mixed, doubtful>>
listsVars == <<mounted, stored, plugins, historyRuns, catalogError, pageLoading, updating,
               refreshing, asking, traffic, givenUp, clicks, doubtVars>>
shownVars == <<plugins, historyRuns, catalogError, pageLoading, updating, refreshing, asking>>

\* A request asks for one list, that of the catalog for both.  Its capabilities count only
\* when its plugins fail: "fallback", and "bare" when the body of the capabilities is cut.
Parts == {"plugins", "history"}
ListOf == [catalog |-> {"plugins", "history"}, plugins |-> {"plugins"}, mount |-> {"plugins"},
           history |-> {"history"}, delete |-> {"history"}, clear |-> {"history"},
           tool |-> {"history"}]
Fetches == {"catalog", "plugins", "history"}
Out(parts) == [p \in parts |-> [state |-> "out", value |-> {}]]

\* of: the plugin or the run; more: the switch, or the runs on the page at the click
Ask(kind, of, more, no) ==
  [kind |-> kind, of |-> of, more |-> more, no |-> no,
   got |-> Out(ListOf[kind])]

Crossing(kind, rest) == UNION {ListOf[kind] \cap ListOf[q.kind] : q \in rest}
StillMixed(rest) == {L \in mixed : \E q \in rest : L \in ListOf[q.kind]}

Sent(kind, of, more) ==
  /\ clicks < MaxClicks /\ clicks' = clicks + 1
  /\ traffic' = traffic \cup {Ask(kind, of, more, clicks + 1)}
  /\ mixed' = mixed \cup Crossing(kind, traffic)
  /\ doubtful' = doubtful \cup Crossing(kind, traffic)
  /\ UNCHANGED givenUp

\* What follows an answer is sent with the number of the request it follows.
Followed(q, kind, of) ==
  LET rest == traffic \ {q}
  IN  /\ traffic' = rest \cup {Ask(kind, of, {}, q.no)}
      /\ mixed' = StillMixed(rest \cup givenUp) \cup Crossing(kind, rest)
      /\ doubtful' = doubtful \cup Crossing(kind, rest)
      /\ UNCHANGED <<givenUp, clicks>>

\* The lists a request has fetched alone, and those it has emptied.
Brought(q) == {L \in ListOf[q.kind] \ mixed : q.kind \in Fetches /\ q.got[L].state = "read"}
Emptied(q) == {L \in ListOf[q.kind] : q.got[L].state = "cut"}

Done(q) ==
  /\ traffic' = traffic \ {q}
  /\ mixed' = StillMixed((traffic \ {q}) \cup givenUp)
  /\ doubtful' = (doubtful \ Brought(q)) \cup Emptied(q)
  /\ UNCHANGED <<givenUp, clicks>>

NoPlugins == [p \in Plugins |-> "absent"]

ListsInit ==
  /\ mounted \in SUBSET Plugins /\ stored \in {{}, Runs}
  /\ plugins = NoPlugins /\ historyRuns = {}
  /\ catalogError = {} /\ pageLoading = TRUE /\ updating = {}
  /\ refreshing = FALSE /\ asking = {}
  /\ traffic = {Ask("catalog", "", {}, 0)} /\ givenUp = {} /\ clicks = 0
  /\ mixed = {} /\ doubtful = {}

-----------------------------------------------------------------------------
(* The backend *)

\* What a request does there; a tool that ends with an error is not kept in the history.
BackendDoes(q) ==
  /\ mounted' = CASE q.kind = "mount" /\ q.more # {} -> mounted \cup {q.of}
                  [] q.kind = "mount" /\ q.more = {} -> mounted \ {q.of}
                  [] OTHER -> mounted
  /\ stored' \in CASE q.kind = "tool" -> {stored, stored \cup {q.of}}
                    [] q.kind = "delete" -> {stored \ {q.of}}
                    [] q.kind = "clear" -> {{}}
                    [] OTHER -> {stored}

Got(q, part, answer) ==
  traffic' = (traffic \ {q}) \cup {[q EXCEPT !.got[part] = answer]}

\* The request is handled: what it reads is what there is then.
Handled(q, part) ==
  /\ q.got[part].state = "out" /\ BackendDoes(q)
  /\ Got(q, part, [state |-> "read", value |-> IF part = "history" THEN stored' ELSE mounted'])
  /\ UNCHANGED <<shownVars, givenUp, clicks, doubtVars>>

\* It is handled and the body of its answer is cut, or times out: status 200 and nothing.
Cut(q, part) ==
  /\ q.kind \in Fetches /\ q.got[part].state = "out"
  /\ Got(q, part, [state |-> "cut", value |-> {}])
  /\ UNCHANGED <<mounted, stored, shownVars, givenUp, clicks, doubtVars>>

\* It fails, or its answer is lost, or the page gives it up; only the catalog tells which list
\* is not there.
Lost(q, part) ==
  /\ q.got[part].state = "out"
  /\ \/ BackendDoes(q) /\ UNCHANGED givenUp
     \/ UNCHANGED <<mounted, stored, givenUp>>
     \/ q.kind \notin Fetches /\ givenUp' = givenUp \cup {q} /\ UNCHANGED <<mounted, stored>>
  /\ \/ Got(q, part, [state |-> "failed", value |-> {}])
     \/ /\ q.kind = "catalog" /\ part = "plugins"
        /\ \/ Got(q, part, [state |-> "fallback", value |-> mounted])
           \/ Got(q, part, [state |-> "bare", value |-> {}])
  /\ mixed' = IF q \in givenUp' THEN mixed \cup ListOf[q.kind] ELSE mixed
  /\ doubtful' = IF q.kind = "catalog" THEN doubtful ELSE doubtful \cup ListOf[q.kind]
  /\ UNCHANGED <<shownVars, clicks>>

\* What the page has given up is done after all.
HandledLate(q) ==
  /\ BackendDoes(q) /\ givenUp' = givenUp \ {q}
  /\ mixed' = StillMixed(traffic \cup givenUp')
  /\ UNCHANGED <<shownVars, traffic, clicks, doubtful>>

-----------------------------------------------------------------------------
(* App.tsx *)

ListedAs(on) == [p \in Plugins |-> IF p \in on THEN "on" ELSE "off"]

\* `groups || {}` of what a fetch has got.
Listing(got) == IF got.state \in {"cut", "bare"} THEN NoPlugins ELSE ListedAs(got.value)

\* A mounted plugin has no Popconfirm, and one that is not listed has no row.
ConfirmationsLeft == {p \in asking : plugins'[p] = "off"}

\* The button of the warning, or a reconnection that has succeeded.
refreshPlatformCatalog ==
  /\ ~pageLoading /\ Sent("catalog", "", {})
  /\ UNCHANGED <<mounted, stored, shownVars>>

\* Slip: plugins taken from the capabilities are not reported.
CatalogSettlesQuietly(q) ==
  LET got == q.got["plugins"]
      failed == {p \in Parts : q.got[p].state \notin {"read", "cut"}}
  IN  /\ q.kind = "catalog" /\ \A p \in Parts : q.got[p].state # "out"
      /\ plugins' = CASE got.state \in {"read", "cut"} -> Listing(got)
                      [] got.state \in {"fallback", "bare"} ->
                           [p \in Plugins |-> IF p \in UserPlugins THEN plugins[p] ELSE Listing(got)[p]]
                      [] OTHER -> plugins
      /\ historyRuns' = IF "history" \in failed THEN historyRuns ELSE q.got["history"].value
      /\ catalogError' = {p \in failed : q.got[p].state = "failed"} /\ pageLoading' = FALSE
      /\ asking' = ConfirmationsLeft
      /\ Done(q) /\ UNCHANGED <<mounted, stored, updating, refreshing>>

\* When all requests of the catalog are over: each list that came, or came empty, replaces the
\* one on the page, and the plugins of the platform are taken from the capabilities when they
\* did not.
CatalogSettles(q) ==
  LET got == q.got["plugins"]
      failed == {p \in Parts : q.got[p].state \notin {"read", "cut"}}
  IN  /\ q.kind = "catalog" /\ \A p \in Parts : q.got[p].state # "out"
      /\ plugins' = CASE got.state \in {"read", "cut"} -> Listing(got)
                      [] got.state \in {"fallback", "bare"} ->
                           [p \in Plugins |-> IF p \in UserPlugins THEN plugins[p] ELSE Listing(got)[p]]
                      [] OTHER -> plugins
      /\ historyRuns' = IF "history" \in failed THEN historyRuns ELSE q.got["history"].value
      /\ catalogError' = failed /\ pageLoading' = FALSE
      /\ asking' = ConfirmationsLeft
      /\ Done(q) /\ UNCHANGED <<mounted, stored, updating, refreshing>>

\* runTool, in any pane: its answer, whatever its body, announces that the history has changed,
\* and the page fetches it.  A fetch that fails is passed over.
runTool(r) ==
  /\ ~pageLoading /\ r \notin stored /\ Sent("tool", r, {})
  /\ \A q \in traffic \cup givenUp : q.of # r
  /\ UNCHANGED <<mounted, stored, shownVars>>

onHistoryUpdated(q) ==
  /\ q.kind = "tool"
  /\ \/ q.got["history"].state = "read" /\ Followed(q, "history", "")
     \/ q.got["history"].state = "failed" /\ Done(q)
  /\ UNCHANGED <<mounted, stored, shownVars>>

refreshHistory(q) ==
  /\ q.kind = "history" /\ q.got["history"].state # "out" /\ Done(q)
  /\ historyRuns' = IF q.got["history"].state = "failed" THEN historyRuns
                    ELSE q.got["history"].value
  /\ UNCHANGED <<mounted, stored, plugins, catalogError, pageLoading, updating, refreshing,
                 asking>>

-----------------------------------------------------------------------------
(* ScriptManager.tsx *)

\* The switch mounts at once; for an unverified script the Popconfirm around it opens
\* with the same click and mounts once more when it is confirmed.
updatePluginMenu(p) ==
  /\ ~pageLoading /\ plugins[p] # "absent"
  /\ \/ p \notin updating /\ Sent("mount", p, IF plugins[p] = "off" THEN {"on"} ELSE {})
     \/ p \in asking /\ Sent("mount", p, {"on"})
  /\ asking' = IF p \in Unverified \ asking /\ plugins[p] = "off" THEN asking \cup {p}
               ELSE asking \ {p}
  /\ updating' = updating \cup {p}
  /\ UNCHANGED <<mounted, stored, plugins, historyRuns, catalogError, pageLoading, refreshing>>

CancelConfirmation(p) ==
  /\ p \in asking /\ asking' = asking \ {p}
  /\ UNCHANGED <<mounted, stored, plugins, historyRuns, catalogError, pageLoading, updating,
                 refreshing, traffic, givenUp, clicks, doubtVars>>

\* onPluginChange, which changes a plugin that is listed, then the list is fetched again.
PluginUpdated(q) ==
  /\ q.kind = "mount" /\ q.got["plugins"].state = "read"
  /\ plugins' = [plugins EXCEPT ![q.of] = CASE @ = "absent" -> @
                                             [] q.more # {} -> "on"
                                             [] OTHER -> "off"]
  /\ asking' = ConfirmationsLeft
  /\ Followed(q, "plugins", q.of) /\ refreshing' = TRUE
  /\ UNCHANGED <<mounted, stored, historyRuns, catalogError, pageLoading, updating>>

PluginRefused(q) ==
  /\ q.kind = "mount" /\ q.got["plugins"].state = "failed" /\ Done(q)
  /\ updating' = updating \ {q.of}
  /\ UNCHANGED <<mounted, stored, plugins, historyRuns, catalogError, pageLoading, refreshing,
                 asking>>

\* The button of the page.
RefreshClicked ==
  /\ ~pageLoading /\ ~refreshing /\ refreshing' = TRUE /\ Sent("plugins", "", {})
  /\ UNCHANGED <<mounted, stored, plugins, historyRuns, catalogError, pageLoading, updating,
                 asking>>

refreshList(q) ==
  /\ q.kind = "plugins" /\ q.got["plugins"].state # "out" /\ Done(q)
  /\ plugins' = IF q.got["plugins"].state = "failed" THEN plugins ELSE Listing(q.got["plugins"])
  /\ asking' = ConfirmationsLeft
  /\ updating' = updating \ {q.of} /\ refreshing' = FALSE
  /\ UNCHANGED <<mounted, stored, historyRuns, catalogError, pageLoading>>

-----------------------------------------------------------------------------
(* HistoryView.tsx *)

\* The answer is applied to the runs that were on the page at the click.
removeRun(r) ==
  /\ ~pageLoading /\ r \in historyRuns /\ Sent("delete", r, historyRuns)
  /\ UNCHANGED <<mounted, stored, shownVars>>

removeAll ==
  /\ ~pageLoading /\ historyRuns # {} /\ Sent("clear", "", {})
  /\ UNCHANGED <<mounted, stored, shownVars>>

Removed(q) ==
  /\ q.kind \in {"delete", "clear"} /\ q.got["history"].state # "out" /\ Done(q)
  /\ historyRuns' = IF q.got["history"].state = "failed" THEN historyRuns ELSE q.more \ {q.of}
  /\ UNCHANGED <<mounted, stored, plugins, catalogError, pageLoading, updating, refreshing,
                 asking>>

ListsNext ==
  \/ refreshPlatformCatalog \/ RefreshClicked \/ removeAll
  \/ \E p \in Plugins : updatePluginMenu(p) \/ CancelConfirmation(p)
  \/ \E r \in Runs : runTool(r) \/ removeRun(r)
  \/ \E q \in traffic :
       \/ \E part \in DOMAIN q.got : Handled(q, part) \/ Cut(q, part) \/ Lost(q, part)
       \/ CatalogSettles(q) \/ onHistoryUpdated(q) \/ refreshHistory(q)
       \/ PluginUpdated(q) \/ PluginRefused(q) \/ refreshList(q) \/ Removed(q)
  \/ \E q \in givenUp : HandledLate(q)

ListsSpec == ListsInit /\ [][ListsNext]_listsVars

-----------------------------------------------------------------------------
(* Properties *)

ListsTypeOK ==
  /\ mounted \subseteq Plugins /\ stored \subseteq Runs /\ historyRuns \subseteq Runs
  /\ plugins \in [Plugins -> {"absent", "off", "on"}]
  /\ catalogError \subseteq Parts /\ pageLoading \in BOOLEAN
  /\ updating \subseteq Plugins /\ refreshing \in BOOLEAN /\ asking \subseteq Plugins
  /\ \A q \in traffic \cup givenUp : q.kind \in DOMAIN ListOf /\ q.no \in 0..MaxClicks
  /\ clicks \in 0..MaxClicks /\ mixed \subseteq doubtful /\ doubtful \subseteq Parts

\* When no request of a list is out, the page shows what the backend has, or the warning
\* names the list: neither the plugins taken from the capabilities nor a list changed in
\* place hides that something is missing (App.tsx:175, ScriptManager.tsx:69,
\* HistoryView.tsx:41).  The exceptions the code has are requests of one list that were out
\* together, an answer that was lost and a body that was cut; each lasts only until the list
\* is fetched while nothing else asks for it or changes it.
ListsAreCurrent ==
  /\ "plugins" \in doubtful \cup catalogError \/ plugins = ListedAs(mounted)
     \/ \E q \in traffic : "plugins" \in ListOf[q.kind]
  /\ "history" \in doubtful \cup catalogError \/ historyRuns = stored
     \/ \E q \in traffic : "history" \in ListOf[q.kind]
=============================================================================
