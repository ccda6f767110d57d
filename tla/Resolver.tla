------------------------------ MODULE Resolver ------------------------------
(***************************************************************************)
(* Starting the Go service (app/app.go, app/resolver.go, app/router.go):   *)
(* NewApp registers the service constructors, calls each once in           *)
(* dependency order, mounts the routes with the services their controllers *)
(* name, and migrates; Run serves.                                         *)
(*                                                                         *)
(* A value is known by the type it is registered under, and a constructor  *)
(* gives a value that fits that type.  The config file and what a          *)
(* constructor does are outside: a constructor or the migration may fail.  *)
(***************************************************************************)
EXTENDS Integers, Sequences, FiniteSets

CONSTANTS
  Builtin,        \* types that need no constructor: the logger and the config
  Database,       \* the type of the postgres service
  Controller,     \* the type of the struct controllers embed
  Constructor,    \* what may be registered, see Analyze
  RouteItem,      \* what a list of routes is made of
  MaxServices,    \* bound: constructors registered
  MaxItems        \* bound: items in the list of routes

(* An item of the routes: a generated-API controller with its mount; a path; a pointer to a      *)
(* controller, with the types of its fields and whether a method is named for a verb; or         *)
(* something else.                                                                               *)
ASSUME ResolverAssumption ==
  /\ \A c \in Constructor : c.deps \in Seq({d.provides : d \in Constructor} \union Builtin)
  /\ \A item \in RouteItem : item.kind \in {"spec", "path", "controller", "other"}
  /\ MaxServices \in Nat /\ MaxItems \in Nat

VARIABLES
  stage,          \* how far the start has come; "failed" is a panic of the framework
  services,       \* the constructors registered, in order
  indegree,       \* of the active ones, by their place: dependencies not built yet
  ready,          \* the places of those that wait for none, oldest first
  built,          \* the places of those called, in order
  routes,         \* the list of routes, with /health at its end
  mounted         \* items of it that are mounted

startVars == <<stage, services, indegree, ready, built, routes, mounted>>

Fails == stage' = "failed"

-----------------------------------------------------------------------------
(* Which constructors are called, and what each waits for *)

(* The last one registered for a type wins. *)
Superseded(i) == \E j \in i + 1..Len(services) : services[j].provides = services[i].provides

Active == {i \in DOMAIN services : ~Superseded(i)}
Provided == Builtin \union {services[i].provides : i \in Active}

(* The parameters of i that have to be built, and those p builds. *)
Needs(i) == {k \in DOMAIN services[i].deps : services[i].deps[k] \notin Builtin}
NeedsOf(i, p) == {k \in Needs(i) : services[i].deps[k] = services[p].provides}

(* Faulty: a provider meets one parameter of a dependent, not each. *)
LessOne(i, p) == indegree[i] - (IF NeedsOf(i, p) = {} THEN 0 ELSE 1)

(* What is left for i to wait for once p is built. *)
Less(i, p) == indegree[i] - Cardinality(NeedsOf(i, p))

(* Faulty: one dependency built is enough. *)
FreedAtOnce(p) == {i \in Active : NeedsOf(i, p) # {}}

Freed(p) == {i \in Active : NeedsOf(i, p) # {} /\ Less(i, p) = 0}

Ascending(S) ==
  {s \in [1..Cardinality(S) -> S] :
     {s[i] : i \in DOMAIN s} = S /\ \A i, j \in DOMAIN s : i < j => s[i] < s[j]}

-----------------------------------------------------------------------------
(* resolve *)

(* A function of no variable parameters that returns one interface or pointer. *)
Analyze(c) == c.function /\ c.outs = 1 /\ ~c.variadic /\ c.kind \in {"interface", "pointer"}

(* One constructor is looked at: whether it can be called, and what it provides. *)
Register ==
  /\ stage = "register" /\ Len(services) < MaxServices
  /\ \E constructor \in Constructor :
       /\ services' = Append(services, constructor)
       /\ IF Analyze(constructor) /\ constructor.provides \notin Builtin THEN UNCHANGED stage ELSE Fails
  /\ UNCHANGED <<indegree, ready, built, routes, mounted>>

(* Every dependency has a provider, and what waits for none is ready. *)
Link ==
  /\ stage = "register"
  /\ IF \A i \in Active : \A k \in Needs(i) : services[i].deps[k] \in Provided
     THEN /\ stage' = "build"
          /\ indegree' = [i \in Active |-> Cardinality(Needs(i))]
          /\ ready' \in Ascending({i \in Active : Needs(i) = {}})
     ELSE Fails /\ UNCHANGED <<indegree, ready>>
  /\ UNCHANGED <<services, built, routes, mounted>>

(* The one ready longest is called; the dependents that waited only for it follow. *)
Build ==
  /\ stage = "build" /\ ready # <<>>
  /\ \/ /\ indegree' = [i \in Active |-> Less(i, Head(ready))]
        /\ \E freed \in Ascending(Freed(Head(ready))) : ready' = Tail(ready) \o freed
        /\ built' = Append(built, Head(ready))
        /\ UNCHANGED stage
     \/ stage' = "constructor failed" /\ UNCHANGED <<indegree, ready, built>>
  /\ UNCHANGED <<services, routes, mounted>>

HasPostgres == Database \in Provided

Health == <<[kind |-> "path"], [kind |-> "controller", fields |-> {Controller}, verbs |-> TRUE]>>

(* What is left waits in a cycle, or for one; and postgres must be there.  From here on the list *)
(* of routes counts.                                                                             *)
Resolved ==
  /\ stage = "build" /\ ready = <<>>
  /\ IF Len(built) = Cardinality(Active) /\ HasPostgres
     THEN /\ stage' = "mount"
          /\ \E n \in 0..MaxItems : \E items \in [1..n -> RouteItem] : routes' = items \o Health
     ELSE Fails /\ UNCHANGED routes
  /\ UNCHANGED <<services, indegree, ready, built, mounted>>

-----------------------------------------------------------------------------
(* newRouter *)

(* The services, and the struct controllers embed. *)
Injectable == Provided \union {Controller}

Injects(item) == item.fields \subseteq Injectable

(* A controller follows the path at i, and can be mounted there. *)
Mountable(i) ==
  /\ i + 1 <= Len(routes) /\ routes[i + 1].kind = "controller"
  /\ Injects(routes[i + 1]) /\ routes[i + 1].verbs

MountSpec(i) ==
  /\ routes[i].kind = "spec" /\ Injects(routes[i])
  /\ mounted' = i

MountPath(i) ==
  /\ routes[i].kind = "path" /\ Mountable(i)
  /\ mounted' = i + 1

Refused(i) ==
  CASE routes[i].kind = "spec" -> ~Injects(routes[i])
    [] routes[i].kind = "path" -> ~Mountable(i)
    [] OTHER -> TRUE

Mount ==
  /\ stage = "mount" /\ mounted < Len(routes)
  /\ \/ (MountSpec(mounted + 1) \/ MountPath(mounted + 1)) /\ UNCHANGED stage
     \/ Refused(mounted + 1) /\ Fails /\ UNCHANGED mounted
  /\ UNCHANGED <<services, indegree, ready, built, routes>>

(* A migration that fails ends the process; Run listens. *)
Serve ==
  /\ stage = "mount" /\ mounted = Len(routes)
  /\ stage' \in {"serving", "migration failed"}
  /\ UNCHANGED <<services, indegree, ready, built, routes, mounted>>

-----------------------------------------------------------------------------

StartInit ==
  /\ stage = "register" /\ services = <<>>
  /\ indegree = <<>> /\ ready = <<>> /\ built = <<>>
  /\ routes = <<>> /\ mounted = 0

StartNext == Register \/ Link \/ Build \/ Resolved \/ Mount \/ Serve

StartSpec == StartInit /\ [][StartNext]_startVars

-----------------------------------------------------------------------------
(* Safety *)

(* Each constructor is called at most once, after a constructor for each of its parameters, and  *)
(* one that a later registration supersedes never (resolve: "calls each constructor once in      *)
(* dependency order", "last registered wins").                                                   *)
BuiltInOrder ==
  \A n \in DOMAIN built :
    /\ ~Superseded(built[n])
    /\ \A m \in DOMAIN built : built[m] = built[n] => m = n
    /\ \A k \in Needs(built[n]) :
         \E m \in 1..n - 1 : services[built[m]].provides = services[built[n]].deps[k]

(* What a program must be for the framework to start it.  No set of its constructors waits for   *)
(* one of its own, each of them.                                                                 *)
Waiting(S) == \A i \in S : \E j \in S : NeedsOf(i, j) # {}
Allowed(i) ==
  CASE routes[i].kind = "spec" -> Injects(routes[i])
    [] routes[i].kind = "path" -> Mountable(i)
    [] routes[i].kind = "controller" -> i > 1 /\ routes[i - 1].kind = "path"
    [] OTHER -> FALSE
Startable ==
  /\ \A i \in DOMAIN services : Analyze(services[i]) /\ services[i].provides \notin Builtin
  /\ \A i \in Active : \A k \in Needs(i) : services[i].deps[k] \in Provided
  /\ \A S \in SUBSET Active : S # {} => ~Waiting(S)
  /\ HasPostgres
  /\ \A i \in DOMAIN routes : Allowed(i)

(* The framework serves no program it should refuse and refuses none it could start, however     *)
(* constructors are ordered, registered twice, depend on each other, or take one service twice   *)
(* (resolve's indegrees, newRouter).                                                             *)
StartsIffItCan ==
  /\ stage = "serving" => Startable /\ {built[n] : n \in DOMAIN built} = Active
  /\ stage = "failed" => ~Startable
=============================================================================
