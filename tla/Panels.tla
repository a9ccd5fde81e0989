------------------------------- MODULE Panels --------------------------------
(***************************************************************************)
(* The panels of the workspaces that list something and change it: each    *)
(* loads its list when it is mounted, sends a change when a button is      *)
(* pressed, and then either loads again or puts the answer into its state. *)
(* Several requests may be under way, since few buttons are disabled       *)
(* meanwhile. Panels share no state, so a behaviour is about one of them.  *)
(***************************************************************************)
EXTENDS Naturals

CONSTANTS
    Slots,       \* requests of the panel open at a time
    MaxChanges   \* bound on the changes the service makes

ASSUME ChangesAreBounded == MaxChanges \in Nat

\* reloads: a change is followed by a load, otherwise its answer is shown;
\* announces: the panel says that it is working on a change; until: what ends
\* that, the answer of the change, any load that ends, or only the load the
\* change waits for; catches: a request that throws ends it as well.
Panel(reloads, announces, until, catches) ==
    [reloads |-> reloads, announces |-> announces, until |-> until, catches |-> catches]

Library == Panel(TRUE, TRUE, "itsLoad", TRUE)
Batches == Panel(TRUE, TRUE, "load", FALSE)
Releases == Panel(TRUE, TRUE, "change", TRUE)
Metadata == Panel(TRUE, TRUE, "change", FALSE)
Collections == Panel(TRUE, FALSE, "change", FALSE)
SavedMedia == Panel(FALSE, FALSE, "change", FALSE)
Profile == Panel(FALSE, TRUE, "change", FALSE)

AllPanels ==
    {Library, Batches, Releases, Metadata, Collections, SavedMedia, Profile}

VARIABLES
    panel,    \* the panel of this behaviour
    version,  \* the service: how often the list was changed
    shown,    \* the version the panel shows
    working,  \* the panel says it is working
    request,  \* of each request: "none", "load", "loaded", "change" or "changed"
    found,    \* of each request: the version its answer carries
    awaited,  \* the loads a change waits for
    mixed     \* history: a request failed, or crossed another one

panelVars == <<panel, version, shown, working, request, found, awaited, mixed>>

PanelTypeOK ==
    /\ panel \in AllPanels
    /\ version \in 0 .. MaxChanges
    /\ shown \in 0 .. version
    /\ working \in BOOLEAN
    /\ request \in [Slots -> {"none", "load", "loaded", "change", "changed"}]
    /\ found \in [Slots -> 0 .. version]
    /\ awaited \subseteq {s \in Slots : request[s] \in {"load", "loaded"}}
    /\ mixed \in BOOLEAN

FirstSlot == CHOOSE s \in Slots : TRUE

\* A panel loads its list when it is mounted.
PanelInit ==
    /\ panel \in AllPanels
    /\ version = 0
    /\ shown = 0
    /\ working = FALSE
    /\ request = [s \in Slots |-> IF s = FirstSlot THEN "load" ELSE "none"]
    /\ found = [s \in Slots |-> 0]
    /\ awaited = {}
    /\ mixed = FALSE

Becomes(s, stage) == request' = [request EXCEPT ![s] = stage]

\* Two answers of which either may come last: loads, or, when the answer of a
\* change is shown, anything else.
CrossesLoad(s) == \E r \in Slots \ {s} : request[r] \in {"load", "loaded"}
CrossesAny(s) == \E r \in Slots \ {s} : request[r] # "none"

-----------------------------------------------------------------------------
(* Loads *)

\* The refresh button, the event of a finished upload, or a saved form.
Reload(s) ==
    /\ panel.reloads /\ request[s] = "none"
    /\ Becomes(s, "load")
    /\ mixed' = (mixed \/ CrossesLoad(s))
    /\ UNCHANGED <<panel, version, shown, working, found, awaited>>

ReadList(s) ==
    /\ request[s] = "load"
    /\ Becomes(s, "loaded")
    /\ found' = [found EXCEPT ![s] = version]
    /\ UNCHANGED <<panel, version, shown, working, awaited, mixed>>

\* load() has returned, and so has the change that waited for it.
LoadEnds(s) ==
    /\ Becomes(s, "none")
    /\ found' = [found EXCEPT ![s] = 0]
    /\ awaited' = awaited \ {s}
    /\ working' = (working /\ panel.until # "load"
                           /\ ~(panel.until = "itsLoad" /\ s \in awaited))

\* Whichever answer arrives is shown.
ShowList(s) ==
    /\ request[s] = "loaded"
    /\ LoadEnds(s)
    /\ shown' = found[s]
    /\ UNCHANGED <<panel, version, mixed>>

LoadThrows(s) ==
    /\ request[s] \in {"load", "loaded"}
    /\ LoadEnds(s)
    /\ mixed' = TRUE
    /\ UNCHANGED <<panel, version, shown>>

-----------------------------------------------------------------------------
(* Changes *)

Change(s) ==
    /\ request[s] = "none" /\ version < MaxChanges
    /\ Becomes(s, "change")
    /\ working' = (working \/ panel.announces)
    /\ mixed' = (mixed \/ (~panel.reloads /\ CrossesAny(s)))
    /\ UNCHANGED <<panel, version, shown, found, awaited>>

Apply(s) ==
    /\ request[s] = "change" /\ version < MaxChanges
    /\ version' = version + 1
    /\ found' = [found EXCEPT ![s] = version']
    /\ Becomes(s, "changed")
    /\ UNCHANGED <<panel, shown, working, awaited, mixed>>

\* Faulty variant of Changed: nothing is loaded after the change.
ChangedOnly(s) ==
    /\ request[s] = "changed"
    /\ Becomes(s, "none")
    /\ shown' = IF panel.reloads THEN shown ELSE found[s]
    /\ found' = [found EXCEPT ![s] = 0]
    /\ working' = FALSE
    /\ UNCHANGED <<panel, version, awaited, mixed>>

\* The answer is there: the panel loads its list, or shows what it was told.
Changed(s) ==
    /\ request[s] = "changed"
    /\ found' = [found EXCEPT ![s] = 0]
    /\ working' = (working /\ panel.until # "change")
    /\ IF panel.reloads
         THEN /\ Becomes(s, "load") /\ awaited' = awaited \cup {s}
              /\ mixed' = (mixed \/ CrossesLoad(s)) /\ UNCHANGED shown
         ELSE Becomes(s, "none") /\ shown' = found[s] /\ UNCHANGED <<awaited, mixed>>
    /\ UNCHANGED <<panel, version>>

\* The service refuses the change; the panel says so.
Refused(s) ==
    /\ request[s] = "change"
    /\ Becomes(s, "none")
    /\ working' = FALSE
    /\ UNCHANGED <<panel, version, shown, found, awaited, mixed>>

\* The request throws, before or after the service made the change. A panel
\* that does not catch it goes on saying that it is working.
ChangeThrows(s) ==
    /\ request[s] \in {"change", "changed"}
    /\ Becomes(s, "none")
    /\ found' = [found EXCEPT ![s] = 0]
    /\ working' = (working /\ ~panel.catches)
    /\ mixed' = TRUE
    /\ UNCHANGED <<panel, version, shown, awaited>>

-----------------------------------------------------------------------------

\* A request that was sent goes on.
Proceed(s) ==
    \/ ReadList(s) \/ ShowList(s) \/ LoadThrows(s)
    \/ Apply(s) \/ Changed(s) \/ Refused(s) \/ ChangeThrows(s)

PanelNext == \E s \in Slots : Reload(s) \/ Change(s) \/ Proceed(s)

\* When nothing is under way, no request failed and none crossed another one,
\* the panel shows the list as the service has it (load after each change).
PanelIsCurrent ==
    ~mixed /\ (\A s \in Slots : request[s] = "none") => shown = version

=============================================================================
