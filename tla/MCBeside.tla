------------------------------ MODULE MCBeside ------------------------------
(* What stands beside the patrol, none of it touching the rest: the start of the Go service, the *)
(* requests it serves, the deploy of main, an open runs list, and what a PR is given.  A          *)
(* behaviour is of one of them.                                                                   *)
EXTENDS Resolver, Server, CiDeploy, RunsLive, Intake, TLC

CONSTANTS
  pg, a, b, logger, embedded      \* types

VARIABLE part

(* Services that need none, each other, one twice, or the framework; and no constructors. *)
Returning(kind, type, deps) ==
  [function |-> TRUE, outs |-> 1, variadic |-> FALSE, kind |-> kind, provides |-> type, deps |-> deps]
Constructors ==
  {Returning("interface", type, deps) :
     type \in {pg, a, b}, deps \in {<<>>, <<a>>, <<logger, b>>, <<b, b>>, <<pg, a>>}}
    \union {Returning("pointer", logger, <<>>), Returning("struct", a, <<>>),
            [Returning("interface", a, <<>>) EXCEPT !.function = FALSE],
            [Returning("interface", a, <<>>) EXCEPT !.outs = 2],
            [Returning("interface", a, <<>>) EXCEPT !.variadic = TRUE]}

RouteItems ==
  [kind : {"spec"}, fields : {{a}, {b}}]
    \union [kind : {"path", "other"}]
    \union [kind : {"controller"}, fields : {{a, embedded}}, verbs : BOOLEAN]

(* Owners, the refresh workflow and strangers; from the repository, a fork, or one that is gone. *)
PullKinds ==
  {[author |-> kind[1], repo |-> kind[2], base |-> kind[3], state |-> "open", draft |-> FALSE,
    head |-> 1, files |-> <<>>, retargeted |-> FALSE] :
     kind \in {<<"owner", "ours", "default">>, <<"owner", "ours", "other">>, <<"owner", "fork", "default">>,
               <<"owner", Unset, "default">>, <<"refresh", "ours", "default">>,
               <<"stranger", "ours", "default">>}}

File(path) == [path |-> path, previous |-> Unset]
(* No file, less than a page, a page, more than one; and moves into and out of guarded paths. *)
FileLists ==
  {<<>>, <<File("names"), File("names")>>, <<File("other"), File("other")>>,
   <<File("other"), File("other"), File("own")>>, <<File("names"), File("names"), File("other")>>,
   <<[path |-> "other", previous |-> "own"]>>, <<[path |-> "names", previous |-> "other"]>>}

Alike == Permutations(Request) \union Permutations(Run)

(* Healthy Workers differ in name only: a deploy may start from any one of them. *)
First == Silent \union {CHOOSE worker \in Healthy : TRUE}

Init ==
  /\ part \in {"start", "serve", "deploy", "watch", "ask"}
  /\ StartInit /\ ServerInit /\ LiveInit /\ DeployInit /\ IntakeInit
  /\ Live.worker \in IF part = "deploy" THEN First ELSE Silent

Next ==
  /\ UNCHANGED part
  /\ \/ /\ part = "start" /\ StartNext
        /\ UNCHANGED <<serverVars, deployVars, liveVars, intakeVars>>
     \/ /\ part = "serve" /\ ServerNext
        /\ UNCHANGED <<startVars, deployVars, liveVars, intakeVars>>
     \/ /\ part = "deploy" /\ DeployNext
        /\ UNCHANGED <<startVars, serverVars, liveVars, intakeVars>>
     \/ /\ part = "watch" /\ LiveNext
        /\ UNCHANGED <<startVars, serverVars, deployVars, intakeVars>>
     \/ /\ part = "ask" /\ IntakeNext
        /\ UNCHANGED <<startVars, serverVars, deployVars, liveVars>>

vars == <<part, startVars, serverVars, deployVars, liveVars, intakeVars>>

Spec == Init /\ [][Next]_vars
=============================================================================
