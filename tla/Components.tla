------------------------------ MODULE Components -----------------------------
(***************************************************************************)
(* The small components that share no state: the pages of the web front    *)
(* end, and the parts of the auth service around its accounts and          *)
(* sessions. A behaviour is about one of them, "part"; the others keep     *)
(* their initial state.                                                    *)
(***************************************************************************)
EXTENDS Uploader, Panels, AuthServer, AccountData, Migrate, Environment, ApiCall

VARIABLE part

Parts == {"uploader", "panels", "server", "data", "migrate", "environment", "call"}

allVars ==
    <<uploaderVars, panelVars, serverVars, dataVars, migrateVars, environmentVars,
      callVars, part>>

\* The types of the part that moves, and the settings that leave validateEnvironment.
ComponentsTypeOK ==
    /\ part = "uploader" => UploaderTypeOK
    /\ part = "panels" => PanelTypeOK
    /\ part = "server" => ServerTypeOK
    /\ part = "data" => DataTypeOK
    /\ part = "migrate" => MigrateTypeOK
    /\ part = "environment" => SettingsWork
    /\ part = "call" => CallTypeOK

ComponentsInit ==
    /\ part \in Parts
    /\ UploaderInit /\ PanelInit /\ ServerInit /\ DataInit /\ MigrateInit /\ CallInit
    /\ part = "panels" \/ panel = Library
    /\ started = "no"
    /\ given \in IF part = "environment" THEN Environments ELSE {Defaults}

UploaderMoves ==
    /\ part = "uploader" /\ UploaderNext
    /\ UNCHANGED <<panelVars, serverVars, dataVars, migrateVars, environmentVars, callVars, part>>

PanelMoves ==
    /\ part = "panels" /\ PanelNext
    /\ UNCHANGED <<uploaderVars, serverVars, dataVars, migrateVars, environmentVars, callVars, part>>

ServerMoves ==
    /\ part = "server" /\ ServerNext
    /\ UNCHANGED <<uploaderVars, panelVars, dataVars, migrateVars, environmentVars, callVars, part>>

DataMoves ==
    /\ part = "data" /\ DataNext
    /\ UNCHANGED <<uploaderVars, panelVars, serverVars, migrateVars, environmentVars, callVars, part>>

MigrateMoves ==
    /\ part = "migrate" /\ MigrateNext
    /\ UNCHANGED <<uploaderVars, panelVars, serverVars, dataVars, environmentVars, callVars, part>>

EnvironmentMoves ==
    /\ part = "environment" /\ EnvironmentNext
    /\ UNCHANGED <<uploaderVars, panelVars, serverVars, dataVars, migrateVars, callVars, part>>

CallMoves ==
    /\ part = "call" /\ CallNext
    /\ UNCHANGED <<uploaderVars, panelVars, serverVars, dataVars, migrateVars, environmentVars, part>>

ComponentsNext ==
    \/ UploaderMoves \/ PanelMoves \/ ServerMoves
    \/ DataMoves \/ MigrateMoves \/ EnvironmentMoves \/ CallMoves

\* Requests end: each is answered, or throws. Somebody keeps asking whether
\* the auth service is ready.
ComponentsFairness ==
    /\ WF_uploaderVars(part = "uploader" /\ Loop)
    /\ \A s \in Slots : WF_panelVars(part = "panels" /\ Proceed(s))
    /\ WF_serverVars(part = "server" /\ Probing)
    /\ WF_serverVars(part = "server" /\ Dialling)
    /\ WF_callVars(part = "call" /\ TimeOut)

ComponentsSpec == ComponentsInit /\ [][ComponentsNext]_allVars /\ ComponentsFairness

-----------------------------------------------------------------------------

\* A page that has nothing under way, lost no answer and crossed none shows
\* what the service has: the library after each upload, a panel after each
\* change.
PagesCatchUp == LibraryCatchesUp /\ PanelIsCurrent

\* The upload loop is busy, or a panel that catches what its requests throw
\* says "Uploading..." or "Retrying...".
Occupied == busy \/ (panel.catches /\ working)

\* No button stays disabled, and no such notice stays, forever: the upload loop
\* and every panel that catches become idle, whether or not the media service
\* ever finishes with an asset (process, start, ReleaseUploader.upload,
\* MediaLibrary.retry).
WaitingEnds == Occupied ~> ~Occupied

\* The readiness check recovers with its dependencies.
ReadinessFollows == part = "server" => ReadinessRecovers

=============================================================================
