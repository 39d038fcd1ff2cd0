------------------------------ MODULE MCStaging ------------------------------
(* The scripts with two of everything that somebody else can touch: projects,   *)
(* revisions, operators, applications; three stores, and secrets that are set   *)
(* after the client id.                                                         *)
EXTENDS Staging

TwoRoles == <<"postgres", "redis">>
ThreeStores == <<"postgres", "redis", "minio">>
TwoSecrets == <<"AZURE_CLIENT_ID", "AZURE_STAGING_SSH_SOURCE_CIDR">>
=============================================================================
