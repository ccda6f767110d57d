------------------------------ MODULE RunsLive ------------------------------
(***************************************************************************)
(* An open runs list, from the runs to the page: a run's Durable Object    *)
(* writes its row to D1 and tells the lobby (run/do.ts index, runs/index.ts*)
(* upsertRun); the lobby passes the summary to the sockets open at the     *)
(* time (lobby/do.ts); the page merges frames and fetched lists            *)
(* (dashboard useRunsLive.ts).                                             *)
(*                                                                         *)
(* D1, the lobby and /api/runs are called over a network: calls take any   *)
(* time, cross each other, and fail.  A summary is its run, when it was    *)
(* updated and whether the run is on the hill; no two updates have the     *)
(* same time, so the time orders a list and a set of summaries is one.     *)
(***************************************************************************)
EXTENDS Integers, Sequences, FiniteSets

CONSTANTS
  Run,            \* the runs
  ListMax,        \* LIST_MAX, DEFAULT_LIST_LIMIT
  MaxUpdates,     \* bound: updates of runs
  MaxFaults,      \* bound: failed calls, lost sockets and hidden tabs
  MaxFetches      \* bound: fetches of one page at once

ASSUME RunsLiveAssumption ==
  ListMax \in Nat \ {0} /\ MaxUpdates \in Nat /\ MaxFaults \in Nat /\ MaxFetches \in Nat

VARIABLES
  current,        \* each run as its Durable Object has it
  owed,           \* when the update was whose row the run still owes (INDEX_PENDING_KEY), or never
  writes,         \* index() calls under way
  rows,           \* D1's rows
  socket,         \* the page's socket: "down", "accepted" by the lobby, or "up"
  frames,         \* on their way through it
  fetches,        \* the page's fetches of /api/runs: asked, or answered with a list on its way
  polling,        \* whether the page polls
  visible,        \* whether its tab is
  list,           \* the runs the page shows
  refetched,      \* history: whether the fetch of the socket's last open has come back
  landed,         \* history: the newest update of each run that reached D1
  clock, faults   \* bounds

liveVars ==
  <<current, owed, writes, rows, socket, frames, fetches, polling, visible, list, refetched, landed,
    clock, faults>>
runVars == <<current, owed, writes, rows, landed>>
pageVars == <<socket, fetches, polling, visible, refetched>>

Never == 0
Unborn == [at |-> Never, onHill |-> FALSE]

Fault == faults < MaxFaults /\ faults' = faults + 1

-----------------------------------------------------------------------------
(* Lists *)

Above(a, b) == IF a.onHill = b.onHill THEN a.at > b.at ELSE a.onHill

(* On the hill first, then the newest, and no more than the most. *)
Capped(summaries) ==
  {s \in summaries : Cardinality({t \in summaries : Above(t, s)}) < ListMax}

ListRuns ==
  Capped({[run |-> r, at |-> rows[r].at, onHill |-> rows[r].onHill] : r \in {q \in Run : rows[q] # Unborn}})

(* Faulty: the incoming copy always wins. *)
MergeLast(held, incoming) ==
  Capped({s \in held : \A t \in incoming : t.run # s.run} \union incoming)

(* The newer copy of each run. *)
Merge(held, incoming) ==
  Capped({s \in held \union incoming : \A t \in held \union incoming : t.run = s.run => t.at <= s.at})

-----------------------------------------------------------------------------
(* A run *)

(* A commit that changes what a list shows marks the row owed. *)
Update(r) ==
  /\ clock < MaxUpdates
  /\ clock' = clock + 1
  /\ \E onHill \in BOOLEAN : current' = [current EXCEPT ![r] = [at |-> clock', onHill |-> onHill]]
  /\ owed' = [owed EXCEPT ![r] = clock']
  /\ UNCHANGED <<writes, rows, landed, frames, list, faults>> /\ UNCHANGED pageVars

(* index() reads the mark, then the run.  Another commit's index() may be under way: it waits for*)
(* D1 and the lobby, not for others.                                                             *)
Index(r) ==
  /\ owed[r] # Never /\ \A w \in writes : w.run = r => w.revision # owed[r]
  /\ writes' = writes \union
       {[run |-> r, revision |-> owed[r], onHill |-> current[r].onHill, at |-> current[r].at, wrote |-> FALSE]}
  /\ UNCHANGED <<current, owed, rows, landed, frames, list, clock, faults>> /\ UNCHANGED pageVars

Lands(w) ==
  /\ rows' = [rows EXCEPT ![w.run] = [at |-> w.at, onHill |-> w.onHill]]
  /\ landed' = [landed EXCEPT ![w.run] = IF w.at > @ THEN w.at ELSE @]

(* D1's row is written; or the call fails, and may have written it. *)
UpsertRun(w) ==
  /\ ~w.wrote
  /\ \/ /\ Lands(w)
        /\ writes' = (writes \ {w}) \union {[w EXCEPT !.wrote = TRUE]}
        /\ UNCHANGED faults
     \/ /\ Lands(w) \/ UNCHANGED <<rows, landed>>
        /\ writes' = writes \ {w}
        /\ Fault
  /\ UNCHANGED <<current, owed, frames, list, clock>> /\ UNCHANGED pageVars

(* The lobby sends the summary to the page's socket, if it has it. *)
Sends(w) ==
  frames' = IF socket = "down" THEN frames
            ELSE Append(frames, [run |-> w.run, at |-> w.at, onHill |-> w.onHill])

(* The lobby hears of the run, and the mark goes, unless a commit has set it since; or the call  *)
(* fails, which the lobby may have heard.                                                        *)
Announce(w) ==
  /\ w.wrote
  /\ writes' = writes \ {w}
  /\ \/ /\ Sends(w)
        /\ owed' = [owed EXCEPT ![w.run] = IF @ = w.revision THEN Never ELSE @]
        /\ UNCHANGED faults
     \/ /\ Sends(w) \/ UNCHANGED frames
        /\ UNCHANGED owed
        /\ Fault
  /\ UNCHANGED <<current, rows, landed, list, clock>> /\ UNCHANGED pageVars

-----------------------------------------------------------------------------
(* The page *)

Asked == [answered |-> FALSE, runs |-> {}, opened |-> FALSE]

(* refresh(); opened: because the socket did. *)
Refresh(opened) ==
  /\ Len(fetches) < MaxFetches
  /\ fetches' = Append(fetches, [Asked EXCEPT !.opened = opened])

(* connect(): the lobby accepts the socket before the page hears that it is open. *)
Connect ==
  /\ socket = "down"
  /\ socket' = "accepted"
  /\ UNCHANGED <<frames, list, fetches, polling, visible, refetched, clock, faults>> /\ UNCHANGED runVars

(* Faulty: an open does not refetch. *)
OpenOnly ==
  /\ socket = "accepted"
  /\ socket' = "up"
  /\ polling' = FALSE
  /\ refetched' = TRUE
  /\ UNCHANGED <<fetches, frames, list, visible, clock, faults>> /\ UNCHANGED runVars

(* Every open refetches. *)
OnOpen ==
  /\ socket = "accepted"
  /\ socket' = "up"
  /\ polling' = FALSE
  /\ Refresh(TRUE)
  /\ refetched' = FALSE
  /\ UNCHANGED <<frames, list, visible, clock, faults>> /\ UNCHANGED runVars

OnMessage ==
  /\ socket = "up" /\ frames # <<>>
  /\ list' = Merge(list, {Head(frames)})
  /\ frames' = Tail(frames)
  /\ UNCHANGED <<clock, faults>> /\ UNCHANGED runVars /\ UNCHANGED pageVars

(* What was on its way is lost; a page in view polls until the next open. *)
OnClose ==
  /\ socket # "down"
  /\ socket' = "down"
  /\ frames' = <<>>
  /\ refetched' = FALSE
  /\ polling' = (polling \/ visible)
  /\ fetches' = [i \in DOMAIN fetches |-> [fetches[i] EXCEPT !.opened = FALSE]]
  /\ Fault
  /\ UNCHANGED <<list, visible, clock>> /\ UNCHANGED runVars

Poll ==
  /\ polling
  /\ Refresh(FALSE)
  /\ UNCHANGED <<socket, frames, list, polling, visible, refetched, clock, faults>> /\ UNCHANGED runVars

OnVisibility ==
  /\ visible' = ~visible
  /\ IF socket = "up" THEN UNCHANGED <<polling, fetches>>
     ELSE /\ polling' = visible'
          /\ IF visible' THEN Refresh(FALSE) ELSE UNCHANGED fetches
  /\ IF visible THEN Fault ELSE UNCHANGED faults
  /\ UNCHANGED <<socket, frames, list, refetched, clock>> /\ UNCHANGED runVars

(* D1 answers fetch i. *)
Answered(i) ==
  /\ ~fetches[i].answered
  /\ fetches' = [fetches EXCEPT ![i].answered = TRUE, ![i].runs = ListRuns]
  /\ UNCHANGED <<socket, frames, list, polling, visible, refetched, clock, faults>> /\ UNCHANGED runVars

Without(i) == [j \in 1..Len(fetches) - 1 |-> IF j < i THEN fetches[j] ELSE fetches[j + 1]]

(* The answer reaches the page, or the fetch has failed, which changes nothing. *)
Fetched(i) ==
  /\ fetches' = Without(i)
  /\ \/ /\ fetches[i].answered
        /\ list' = Merge(list, fetches[i].runs)
        /\ refetched' = (refetched \/ fetches[i].opened)
        /\ UNCHANGED faults
     \/ Fault /\ UNCHANGED <<list, refetched>>
  /\ UNCHANGED <<socket, frames, polling, visible, clock>> /\ UNCHANGED runVars

-----------------------------------------------------------------------------

LiveInit ==
  /\ current = [r \in Run |-> Unborn] /\ owed = [r \in Run |-> Never] /\ writes = {}
  /\ rows = [r \in Run |-> Unborn] /\ landed = [r \in Run |-> Never]
  /\ socket = "down" /\ frames = <<>> /\ fetches = <<>>
  /\ polling = FALSE /\ visible = TRUE /\ refetched = FALSE
  /\ list = {}
  /\ clock = 0 /\ faults = 0

LiveNext ==
  \/ \E r \in Run : Update(r) \/ Index(r)
  \/ \E w \in writes : UpsertRun(w) \/ Announce(w)
  \/ Connect \/ OnOpen \/ OnMessage \/ OnClose \/ Poll \/ OnVisibility
  \/ \E i \in DOMAIN fetches : Answered(i) \/ Fetched(i)

LiveSpec == LiveInit /\ [][LiveNext]_liveVars

-----------------------------------------------------------------------------
(* Safety *)

(* Nothing is owed or on its way, and the socket's own refetch has come back. *)
Quiet ==
  /\ writes = {} /\ \A r \in Run : owed[r] = Never
  /\ socket = "up" /\ refetched /\ frames = <<>> /\ fetches = <<>>

Listed == {r \in Run : rows[r] # Unborn}

(* No older write of the run overtook the newest, which leaves D1 an old row. *)
InStep(r) == rows[r].at = landed[r]

(* "Keeps the loaded list current": while its runs fit, an open list that nothing is owed shows  *)
(* each run there is, as D1's row of it says, whatever crossed, failed or was lost on the way    *)
(* (mergeRuns, onopen's refetch, LobbyDO.summary, index()).                                      *)
ListIsCurrent ==
  Quiet /\ Cardinality(Listed) <= ListMax =>
    /\ {s.run : s \in list} = Listed
    /\ \A s \in list : InStep(s.run) => s.at = rows[s.run].at /\ s.onHill = rows[s.run].onHill
=============================================================================
