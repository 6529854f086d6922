----------------------- MODULE MCOrganizationAccess -----------------------
(* OrganizationAccess on small instances.                                  *)
EXTENDS OrganizationAccess, TLC

\* A custom role between MEMBER and ADMIN, and an edit that lifts it above ADMIN.
Supervisor ==
  {[level |-> 50, perms |-> {"ORG_MANAGE_MEMBER", "AGENT_UPDATE_AVAILABILITY"}]}
Promotion == {[level |-> 80, perms |-> KeepPerms]}
=============================================================================
