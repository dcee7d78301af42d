----------------------------- MODULE MCHostWork -----------------------------
(* The host's work on small sets.                                           *)
EXTENDS HostWork

MCKonnektBuilds == 1 .. 4
MCFolderFiles == <<"a", "b">>
MCDependencyMods == <<"a", "b">>
MCFigureBoots == 1 .. 2
MCFlavors == <<"paper", "vanilla">>
MCFileVersions == 1 .. 3
MCClientIds == 1 .. 2
\* Sign-ins that fit their client, that name a redirect Konnekt has none of, and
\* that a registration made.
MCOAuthRequests ==
  {[client |-> 0, redirect |-> "loop2", scopes |-> {"operate"}, resource |-> "tunnel"],
   [client |-> 0, redirect |-> "elsewhere", scopes |-> {"read"}, resource |-> "tunnel"],
   [client |-> 1, redirect |-> "claude", scopes |-> {"read"}, resource |-> "loopback"]}
=============================================================================
