------------------------------- MODULE AppTable -------------------------------
(***************************************************************************)
(* The routes and ACLs this repository ships: the modules categories,      *)
(* users and core, in the order config.app.modules has them (priorities 3, *)
(* 1 and 0).  Used as values of the constants of the other modules.        *)
(***************************************************************************)
EXTENDS Naturals, Sequences

LOCAL R(rai, endpoint, module) ==
    [rai |-> rai, endpoint |-> endpoint, root |-> FALSE, module |-> module]

\* The categories module: boRoutes, then publicRoutes.
CategoriesBoRoutes ==
    <<R("categories:bo:list",   "GET /categories", 1),
      R("categories:bo:create", "POST /categories", 1),
      R("categories:bo:get",    "GET /categories/test/:id", 1),
      R("categories:bo:update", "PUT /categories/test", 1),
      R("categories:bo:delete", "DELETE /categories/test", 1)>>
CategoriesPublicRoutes ==
    <<R("categories:guest:list", "GET /categories", 1),
      R("categories:guest:get",  "GET /categories/:id", 1)>>
CategoriesRoutes == CategoriesBoRoutes \o CategoriesPublicRoutes

\* The users module: boRoutes.
UsersRoutes ==
    <<R("users:bo:list",    "POST /users", 2),
      R("users:bo:list",    "GET /users", 2),
      R("users:guest:get",  "GET /users/:id", 2),
      R("users:guest:list", "GET /users/public", 2)>>

\* modules.flatMap(module => module.routes); core has no routes.
AppRoutes == CategoriesRoutes \o UsersRoutes

AppRais      == {AppRoutes[k].rai : k \in DOMAIN AppRoutes}
AppEndpoints == {AppRoutes[k].endpoint : k \in DOMAIN AppRoutes}

\* One request for every endpoint, named by it.  A literal path is also
\* matched by the pattern that has a parameter in its place.
AppUrls == AppEndpoints
AppUrlsOf ==
    [e \in AppEndpoints \X BOOLEAN |->
        IF e[1] = "GET /users/:id" THEN {"GET /users/:id", "GET /users/public"}
        ELSE {e[1]}]

-----------------------------------------------------------------------------
AppRoles       == {"sysadmin", "admin", "user", "public"}
AppPublicRoles == {"public"}

LOCAL CategoriesBo == {"categories:bo:list", "categories:bo:get", "categories:bo:create",
                       "categories:bo:update", "categories:bo:delete"}
CategoriesAcl ==
    [role \in AppRoles |->
        CASE role \in {"sysadmin", "admin"} -> CategoriesBo
          [] role = "user"   -> {"categories:bo:list", "categories:bo:get"}
          [] role = "public" -> {"categories:guest:list", "categories:guest:get"}]

LOCAL UsersBo == {"users:bo:list", "users:bo:get", "users:bo:create",
                  "users:bo:update", "users:bo:delete"}
UsersAcl ==
    [role \in AppRoles |->
        CASE role \in {"sysadmin", "admin"} -> UsersBo
          [] role = "user"   -> {"users:bo:list", "users:bo:get"}
          [] role = "public" -> {"users:guest:list", "users:guest:get"}]

\* core declares defineACL({}).
AppModules   == {"categories", "users", "core"}
AppModuleAcl ==
    [m \in AppModules |->
        CASE m = "categories" -> CategoriesAcl
          [] m = "users"      -> UsersAcl
          [] m = "core"       -> <<>>]
AppPermissions == CategoriesBo \cup UsersBo \cup
    {"categories:guest:list", "categories:guest:get", "users:guest:list", "users:guest:get"}
=============================================================================
