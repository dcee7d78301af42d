----------------------------- MODULE KeptFiles -----------------------------
(* What the services keep in folders and buckets: a server's Distant        *)
(* Horizons snapshots, the link they are published under, the names and     *)
(* flags of its backups, the files it is launched from, its mods, and the    *)
(* connectors' grants.  None reads another's state, so a behaviour is one of *)
(* the part that `kept` names.                                               *)
EXTENDS Naturals

CONSTANTS Nil,
          Parts, MaxSnapshots, Keep, LinkPrefixes, MaxLinkTokens, MaxVersions,
          Archives, MaxNames, MaxMetaCalls,
          LaunchFiles, Script, MaxUpdates, MaxConfigEdits,
          ModNames, Hosted, Foreign, MaxModCalls, MaxDrops,
          MaxSignIns, MaxGrantTokens, MaxHashes, MaxChecks, MAX_CONSENTS, MAX_GRANTS

VARIABLES kept,
          staged, index, taken, up, folders, latest, snapshot,
          link, objects, pointer, tokensMade, published, publishing, change,
          tokensUsed, newest, missed,
          archives, zips, lacking, meta, metaCalls, given, wanted, raced, unwritten,
          launchFiles, argfile, savedConfig, judged, updating, updates, edits,
          bootedFrom, told, mishap,
          jar, modRows, modCall, sig, scans, check, cache, modCalls, drops, installTold,
          modDoubt,
          consents, checking, bucketBusy, askedOf, codes, grants, remoteJson, remotePassword,
          holds, signIns, tokensIssued, prompted, issued, grantsEnded, grantDoubt, lingering,
          passwordsCrossed

Snapshots == INSTANCE LodSnapshots WITH Prefixes <- LinkPrefixes, MaxTokens <- MaxLinkTokens
Meta == INSTANCE BackupMeta
          WITH made <- archives, calls <- metaCalls, overlapped <- raced,
               MaxCalls <- MaxMetaCalls
Loader == INSTANCE LoaderUpdate
            WITH files <- launchFiles, newest <- argfile, record <- savedConfig,
                 asked <- judged, job <- updating, running <- bootedFrom,
                 Files <- LaunchFiles, MaxEdits <- MaxConfigEdits
Mods == INSTANCE ModFolder
          WITH rows <- modRows, call <- modCall, calls <- modCalls, told <- installTold,
               doubt <- modDoubt, Names <- ModNames, MaxCalls <- MaxModCalls
Connectors == INSTANCE ConnectorSignIn
                WITH busy <- bucketBusy, asking <- askedOf, disk <- remoteJson,
                     password <- remotePassword, started <- signIns,
                     minted <- tokensIssued, prompts <- prompted, ended <- grantsEnded,
                     doubt <- grantDoubt, overlapped <- passwordsCrossed,
                     MaxTokens <- MaxGrantTokens, MaxPasswords <- MaxHashes

snapshotVars == <<staged, index, taken, up, folders, latest, snapshot>>
linkVars == <<link, objects, pointer, tokensMade, published, publishing, change,
              tokensUsed, newest, missed>>
metaVars == <<archives, zips, lacking, meta, metaCalls, given, wanted, raced, unwritten>>
loaderVars == <<launchFiles, argfile, savedConfig, judged, updating, updates, edits,
                bootedFrom, told, mishap>>
modVars == <<jar, modRows, modCall, sig, scans, check, cache, modCalls, drops, installTold,
             modDoubt>>
connectorVars == <<consents, checking, bucketBusy, askedOf, codes, grants, remoteJson,
                   remotePassword, holds, signIns, tokensIssued, prompted, issued,
                   grantsEnded, grantDoubt, lingering, passwordsCrossed>>

KeptInit ==
  /\ kept \in {"snapshots", "link", "meta", "loader", "mods", "connectors"}
  /\ Snapshots!DHInit /\ Snapshots!LinkInit /\ Meta!MetaInit /\ Loader!UpdateInit
  /\ Mods!ModInit /\ Connectors!ConnectorInit
  /\ launchFiles[Script] = 0 \/ kept = "loader"
  /\ jar = Mods!Empty \/ kept = "mods"

SnapshotsStep ==
  /\ kept = "snapshots" /\ Snapshots!DHNext
  /\ UNCHANGED <<kept, linkVars, metaVars, loaderVars, modVars, connectorVars>>

LinkStep ==
  /\ kept = "link" /\ Snapshots!LinkNext
  /\ UNCHANGED <<kept, snapshotVars, metaVars, loaderVars, modVars, connectorVars>>

MetaStep ==
  /\ kept = "meta" /\ Meta!MetaNext
  /\ UNCHANGED <<kept, snapshotVars, linkVars, loaderVars, modVars, connectorVars>>

LoaderStep ==
  /\ kept = "loader" /\ Loader!UpdateNext
  /\ UNCHANGED <<kept, snapshotVars, linkVars, metaVars, modVars, connectorVars>>

ModsStep ==
  /\ kept = "mods" /\ Mods!ModNext
  /\ UNCHANGED <<kept, snapshotVars, linkVars, metaVars, loaderVars, connectorVars>>

ConnectorsStep ==
  /\ kept = "connectors" /\ Connectors!ConnectorNext
  /\ UNCHANGED <<kept, snapshotVars, linkVars, metaVars, loaderVars, modVars>>

KeptNext ==
  SnapshotsStep \/ LinkStep \/ MetaStep \/ LoaderStep \/ ModsStep \/ ConnectorsStep

KeptTypeOK ==
  /\ kept = "snapshots" => Snapshots!DHTypeOK
  /\ kept = "link" => Snapshots!LinkTypeOK
  /\ kept = "meta" => Meta!MetaTypeOK
  /\ kept = "loader" => Loader!UpdateTypeOK
  /\ kept = "mods" => Mods!ModTypeOK
  /\ kept = "connectors" => Connectors!ConnectorTypeOK

\* What the part at work keeps stays whole.
KeptIsWhole ==
  /\ kept = "snapshots" => Snapshots!SnapshotsAreWhole
  /\ kept = "link" => Snapshots!LinkMovesSafely
  /\ kept = "meta" => Meta!MetaIsTrue
  /\ kept = "loader" => Loader!UpdateIsAllOrNothing
  /\ kept = "mods" => Mods!FolderIsTrue
  /\ kept = "connectors" => Connectors!ConnectorIsSound
=============================================================================
