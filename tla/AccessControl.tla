---------------------------- MODULE AccessControl ----------------------------
(***************************************************************************)
(* Who may call what: the merge of the modules' ACLs, the effective roles  *)
(* of a caller, and the verdict of the authorize(rai) middleware.          *)
(***************************************************************************)
CONSTANTS
    AclRais,       \* the permission strings of the ACLs
    Roles,         \* the roles of roles.definition
    PublicRoles,   \* the roles flagged isPublic
    Names,         \* role names an x-roles header may carry, known or not
    AclModules,    \* the modules of config.app.modules
    ModuleAcl      \* the ACL each module declares: role -> RAIs

\* moduleACLSchema rejects a role roles.definition does not know and the
\* process exits, so the ACLs of a running process name only known roles.
ASSUME RolesAssumption == PublicRoles \subseteq Roles /\ Roles \subseteq Names
ASSUME AclAssumption ==
    \A m \in AclModules :
        /\ DOMAIN ModuleAcl[m] \subseteq Roles
        /\ \A role \in DOMAIN ModuleAcl[m] : ModuleAcl[m][role] \subseteq AclRais

\* authenticate sets req.auth to the names of the x-roles header; without a
\* header req.auth stays unset.  A header of commas and blanks names no role.
NoAuth == [set |-> FALSE, roles |-> {}]
Auth == {NoAuth} \cup [set : {TRUE}, roles : SUBSET Names]

\* grantsByRole.get(role) over the merged ACL; nothing for an unknown role.
MergedAcl(role) ==
    UNION {ModuleAcl[m][role] : m \in {n \in AclModules : role \in DOMAIN ModuleAcl[n]}}

EffectiveRoles(auth) ==
    IF auth.roles # {} THEN auth.roles \cup PublicRoles ELSE PublicRoles

Allowed(auth, rai) == \E role \in EffectiveRoles(auth) : rai \in MergedAcl(role)

\* Mutant of Authorize: a header that names no role is waved through.
AuthorizeNameless(auth, rai) ==
    IF Allowed(auth, rai) \/ (auth.set /\ auth.roles = {}) THEN "next"
    ELSE IF auth.set THEN "403" ELSE "401"

\* What authorize(rai) does with a request: next(), or a 401 or 403 error.
Authorize(auth, rai) ==
    IF Allowed(auth, rai) THEN "next"
    ELSE IF auth.set THEN "403" ELSE "401"
=============================================================================
