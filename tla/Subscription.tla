---------------------------- MODULE Subscription ----------------------------
(***************************************************************************)
(* The refresh of a subscription group (configs/sub/GroupUpdater.cpp and   *)
(* SubscriptionReconcile.cpp) over the profile table and the group's list  *)
(* of profile ids, which are kept apart and saved apart: the thread that   *)
(* drains the refresh queue, the user who adds, deletes, starts and stops  *)
(* profiles meanwhile, a holder of a profile object that saves it late     *)
(* (the profile editor, a test that writes its results) and a crash.       *)
(*                                                                         *)
(* One group, whose object all threads share.  A fetch that fails and an   *)
(* answer that does not parse completely return before anything is         *)
(* written, and are no steps.  The group itself is never deleted.          *)
(***************************************************************************)
EXTENDS Naturals, FiniteSets, Sequences, SequencesExt

CONSTANTS Servers,     \* contents: the exported outbound of a server
          Host,          \* Host[c]: its identity, what stays when settings change
          Selector,      \* content of an auto selector, local state of the group
          MaxId, MaxDoc, \* bounds: profile ids, servers of one answer
          Chunk,         \* profiles per insert
          MaxRefresh, MaxEdits  \* bounds: refreshes; additions, deletions, late saves

NoId == 0
Ids == 1 .. MaxId
NoRow == "no row"
ASSUME SubscriptionAssumption ==
    /\ Host \in [Servers -> Servers]
    /\ Selector \notin Servers
    /\ NoRow \notin Servers \cup {Selector}
    /\ {MaxId, MaxDoc, Chunk, MaxRefresh, MaxEdits} \subseteq Nat \ {0}
    /\ MaxId >= 3

VARIABLES
    rows,     \* rows[id]: content of the profile row, or NoRow
    list,     \* group->profiles
    saved,    \* profiles_json of the group row
    next,     \* profile_last_id + 1
    started,  \* started_id, or NoId
    setting,  \* [clear |-> sub_clear, stops |-> allow_stopping_active_profile]
    step, job,  \* the refresh: its place and its locals
    raced,    \* the user edited the group between its being read and rewritten
    leaked,   \* a crash or a late save left rows behind
    edited,   \* the user edited the group since this refresh read it
    budget    \* [refresh, edit] still allowed
subVars == <<rows, list, saved, next, started, setting, step, job, raced, leaked,
             edited, budget>>
store == <<rows, list, saved, next>>
user == <<setting, raced, leaked, edited, budget>>

Alive(id) == rows[id] # NoRow
Having(c) == {id \in Ids : rows[id] = c}

\* How many of the first i members of seq are in set, where the n-th of them is, and
\* all of them in their order.  SelectSeq would do, but recurses: of counts one can
\* prove something.
Upto(seq, i, set) == Cardinality({j \in 1 .. i : seq[j] \in set})
Nth(seq, set, n) == CHOOSE i \in DOMAIN seq : seq[i] \in set /\ Upto(seq, i, set) = n
Only(seq, set) == [n \in 1 .. Upto(seq, Len(seq), set) |-> seq[Nth(seq, set, n)]]
Without(seq, ids) == Only(seq, ToSet(seq) \ ids)
SetToList(ids) == Only([id \in Ids |-> id], ids)

\* at[n] is <<place, id>>: each id in turn goes to its place, or to the end.
At(seq, i, id) == InsertAt(seq, IF i <= Len(seq) THEN i ELSE Len(seq) + 1, id)
PutBack(seq, at) ==
    LET placed[n \in 0 .. Len(at)] ==
            IF n = 0 THEN seq ELSE At(placed[n - 1], at[n][1], at[n][2])
    IN  placed[Len(at)]

NoJob == [doc |-> <<>>, sticky |-> <<>>, old |-> <<>>, was |-> <<>>, cleared |-> FALSE,
          entries |-> <<>>, todo |-> {}, kept |-> {}, before |-> <<>>]

SubInit ==
    /\ rows \in {[id \in Ids |-> IF id \in DOMAIN f THEN f[id] ELSE NoRow] :
                    f \in {g \in [1 .. 3 -> Servers \cup {Selector}] :
                             Upto(g, 3, {Selector}) < 2}}
    /\ list = <<1, 2, 3>> /\ saved = list /\ next = 4
    /\ started = NoId
    /\ setting \in [clear : BOOLEAN, stops : BOOLEAN]
    /\ step = "idle" /\ job = NoJob
    /\ raced = FALSE /\ leaked = FALSE /\ edited = FALSE
    /\ budget = [refresh |-> MaxRefresh, edit |-> MaxEdits]

-----------------------------------------------------------------------------
(* The refresh. *)

Sticky == Only([i \in DOMAIN list |-> <<i, list[i]>>], (DOMAIN list) \X Having(Selector))
Members == Without(list, {s[2] : s \in ToSet(job.sticky)})

\* A complete answer arrived: the auto selectors of the group and their places
\* are put aside.  In clear mode an answer without servers keeps the group.
Fetch ==
    /\ step = "idle" /\ budget.refresh > 0
    /\ \E n \in 0 .. MaxDoc : \E doc \in [1 .. n -> Servers] :
         /\ ~(setting.clear /\ n = 0 /\ Len(list) > Len(Sticky))
         /\ job' = [NoJob EXCEPT !.doc = doc, !.sticky = Sticky]
    /\ step' = IF setting.clear THEN "clear" ELSE "read"
    /\ edited' = FALSE
    /\ budget' = [budget EXCEPT !.refresh = @ - 1]
    /\ UNCHANGED <<rows, list, saved, next, started, setting, raced, leaked>>

Clear ==
    /\ step = "clear"
    /\ job' = [job EXCEPT !.todo = ToSet(Members)]
    /\ step' = "unlist"
    /\ UNCHANGED <<rows, list, saved, next, started, user>>

\* BatchDeleteProfiles(ids): the running profile is stopped or spared (stopped
\* this way, it leaves its name in started_id), ...
Spared == IF setting.stops THEN {} ELSE job.todo \cap {started}
\* Mutant: the group is not saved after its list lost the ids.
Unlisted_Unsaved(ids) ==
    IF \E id \in ids : Alive(id)
    THEN /\ list' = Without(list, ids) /\ saved' = saved
    ELSE UNCHANGED <<list, saved>>
\* ... the ids leave the list of the group their rows name, ...
Unlisted(ids) ==
    IF \E id \in ids : Alive(id)
    THEN /\ list' = Without(list, ids) /\ saved' = list'
    ELSE UNCHANGED <<list, saved>>
Unlist ==
    /\ step = "unlist"
    /\ Unlisted(job.todo \ Spared)
    /\ job' = [job EXCEPT !.todo = @ \ Spared, !.kept = Spared]
    /\ step' = "erase"
    /\ UNCHANGED <<rows, next, started, user>>
\* ... and then the rows go.  What was spared is only known now; a survivor of
\* clear mode sends the refresh through the diff.
Erase ==
    /\ step = "erase"
    /\ rows' = [id \in Ids |-> IF id \in job.todo THEN NoRow ELSE rows[id]]
    /\ step' = IF job.before = <<>> THEN "read" ELSE "keep"
    /\ job' = [job EXCEPT !.cleared = job.before = <<>> /\ job.kept = {}]
    /\ UNCHANGED <<list, saved, next, started, user>>

\* The n-th arrival of a content claims the n-th old profile that has it.
Claim(doc, old, i) ==
    LET same == Only(old, Having(doc[i]))
        n    == Upto(doc, i, {doc[i]})
    IN  IF n <= Len(same) THEN same[n] ELSE NoId

\* The members are read and every arrival claims its old profile or none.  An
\* answer without servers keeps the group.
Read ==
    /\ step = "read"
    /\ LET old == IF job.cleared THEN <<>> ELSE Without(Members, Having(NoRow))
       IN  IF job.doc = <<>> /\ old # <<>>
           THEN step' = "idle" /\ job' = NoJob
           ELSE /\ step' = "insert"
                /\ job' = [job EXCEPT !.old = old, !.was = rows,
                       !.entries = [i \in DOMAIN job.doc |-> Claim(job.doc, old, i)]]
    /\ UNCHANGED <<store, started, user>>

\* ImportSink::flush: the next arrivals that claimed nothing get rows and ids
\* and are appended to the group.
Insert ==
    /\ step = "insert"
    /\ LET new  == {i \in DOMAIN job.entries : job.entries[i] = NoId}
           now  == {i \in new : Cardinality({j \in new : j < i}) < Chunk}
           Id(i) == next + Cardinality({j \in now : j < i})
       IN  IF new = {}
           THEN /\ step' = IF job.cleared THEN "done" ELSE "update"
                /\ UNCHANGED <<store, job>>
           ELSE /\ next + Cardinality(now) <= MaxId + 1
                /\ rows' = [id \in Ids |-> IF \E i \in now : Id(i) = id
                                           THEN job.doc[CHOOSE i \in now : Id(i) = id]
                                           ELSE rows[id]]
                /\ list' = list \o SetToList({Id(i) : i \in now})
                /\ saved' = list'
                /\ next' = next + Cardinality(now)
                /\ job' = [job EXCEPT !.entries =
                       [i \in DOMAIN @ |-> IF i \in now THEN Id(i) ELSE @[i]]]
                /\ step' = step
    /\ UNCHANGED <<started, user>>

\* Reconcile.  An old profile whose content did not arrive stands for an arrival
\* of unknown content with the same identity, the n-th for the n-th.
Old == ToSet(job.old)
Known == {job.was[id] : id \in Old}
\* Mutant: profiles that an arrival has claimed are left over too.
Leftover_Claimed(host) ==
    Only(job.old, {id \in Old : job.was[id] \in Servers /\ Host[job.was[id]] = host})
Leftover(host) ==
    Only(job.old, {id \in Old : /\ job.was[id] \in Servers \ ToSet(job.doc)
                                /\ Host[job.was[id]] = host})
Superseded(i) ==
    LET left == Leftover(Host[job.doc[i]])
        n == Upto(job.doc, i, {c \in Servers \ Known : Host[c] = Host[job.doc[i]]})
    IN  IF job.doc[i] \notin Known /\ n <= Len(left) THEN left[n] ELSE NoId
Updated == {i \in DOMAIN job.doc : Superseded(i) # NoId}
Stale == (Old \ ({job.entries[i] : i \in DOMAIN job.doc} \cup {Superseded(i) : i \in Updated}))
         \cup {job.entries[i] : i \in Updated}

\* The old profile takes over the outbound of the arrival it stands for.
Update ==
    /\ step = "update"
    /\ rows' = [id \in Ids |->
           IF \E i \in Updated : Superseded(i) = id /\ Alive(id) /\ Alive(job.entries[i])
           THEN LET i == CHOOSE j \in Updated : Superseded(j) = id IN rows[job.entries[i]]
           ELSE rows[id]]
    /\ step' = "order"
    /\ UNCHANGED <<list, saved, next, started, job, user>>

\* The list becomes the subscription's order with the selectors put back.
Order ==
    /\ step = "order"
    /\ list' = PutBack([i \in DOMAIN job.doc |->
                            IF i \in Updated THEN Superseded(i) ELSE job.entries[i]],
                       job.sticky)
    /\ saved' = list'
    /\ job' = [job EXCEPT !.todo = Stale, !.before = <<list>>]
    /\ step' = "unlist"
    /\ UNCHANGED <<rows, next, started, user>>

\* A stale profile that was spared, being in use, returns to its place.
\* Mutant: it does not, so it has a row and no place in any list.
Keep_Lost ==
    /\ step = "keep" /\ step' = "done"
    /\ UNCHANGED <<store, started, job, user>>
Keep ==
    /\ step = "keep" /\ step' = "done"
    /\ LET was == job.before[1]
           Place(id) == IF id \in ToSet(was) THEN CHOOSE i \in DOMAIN was : was[i] = id
                        ELSE Len(list) + 1
           back == SetToList(job.kept \ ToSet(list))
       IN  list' = PutBack(list, [n \in DOMAIN back |-> <<Place(back[n]), back[n]>>])
    /\ saved' = IF job.kept # {} THEN list' ELSE saved
    /\ UNCHANGED <<rows, next, started, job, user>>

Finish ==
    /\ step = "done" /\ step' = "idle" /\ job' = NoJob
    /\ UNCHANGED <<store, started, user>>

Refresh == Fetch \/ Clear \/ Unlist \/ Erase \/ Read \/ Insert \/ Update \/ Order
           \/ Keep \/ Finish

-----------------------------------------------------------------------------
(* The user, and who else saves. *)

\* Between the group's being read and its list's being written anew.
Window == {"clear", "read", "insert", "update", "order"}
             \cup (IF job.before = <<>> THEN {"unlist", "erase"} ELSE {})
Edited ==
    /\ budget.edit > 0 /\ budget' = [budget EXCEPT !.edit = @ - 1]
    /\ edited' = (step # "idle")
    /\ raced' = (raced \/ step \in Window)

AddProfile ==
    /\ Edited /\ next <= MaxId
    /\ \E c \in Servers \cup {Selector} : rows' = [rows EXCEPT ![next] = c]
    /\ list' = Append(list, next) /\ saved' = list' /\ next' = next + 1
    /\ UNCHANGED <<started, setting, step, job, leaked>>

DeleteProfile ==
    /\ Edited
    /\ \E id \in ToSet(list) :
         /\ Unlisted({id})
         /\ rows' = [rows EXCEPT ![id] = NoRow]
    /\ UNCHANGED <<next, started, setting, step, job, leaked>>

StartProfile ==
    /\ \E id \in ToSet(list) : Alive(id) /\ started' = id
    /\ UNCHANGED <<store, step, job, user>>
StopProfile ==
    /\ started # NoId /\ Alive(started) /\ started' = NoId
    /\ UNCHANGED <<store, step, job, user>>

\* Whoever still holds the object of a deleted profile may save it.  While the
\* row is there the object is the one the repository hands out, and the save
\* tells nothing new.
LateSave ==
    /\ budget.edit > 0 /\ budget' = [budget EXCEPT !.edit = @ - 1]
    /\ \E id \in 1 .. next - 1, c \in Servers :
         ~Alive(id) /\ rows' = [rows EXCEPT ![id] = c]
    /\ leaked' = TRUE
    /\ UNCHANGED <<list, saved, next, started, setting, step, job, raced, edited>>

Crash ==
    /\ step # "idle" /\ step' = "idle" /\ job' = NoJob
    /\ list' = saved /\ started' = NoId /\ leaked' = TRUE
    /\ UNCHANGED <<rows, saved, next, setting, raced, edited, budget>>

User == AddProfile \/ DeleteProfile \/ StartProfile \/ StopProfile
SubNext == Refresh \/ User \/ LateSave \/ Crash
SubSpec == SubInit /\ [][SubNext]_subVars

-----------------------------------------------------------------------------
\* The group never names a profile twice or one without a row, in memory or on
\* disk, at whatever step the program dies: rows are inserted before they are
\* listed and unlisted before they are deleted.  Only an edit of the user that
\* falls between the refresh's reading the group and its writing it breaks this.
ListedHasRow ==
    ~raced => \A l \in {list, saved} :
                 IsInjective(l) /\ \A id \in ToSet(l) : Alive(id)

\* Nothing rebuilds the list from the rows, so a profile left out of it is lost
\* to the user.  Between refreshes there is none, unless one was interrupted, the
\* user raced it or somebody saved a profile that it had deleted.
NothingOrphaned ==
    step = "idle" /\ ~raced /\ ~leaked => {id \in Ids : Alive(id)} = ToSet(list)

\* When a refresh is through, the group is what the subscription sent, in its order,
\* but for the selectors and the profiles spared because they run; and a server that
\* came again unchanged keeps its profile, and with it its history: of several
\* copies as many as still arrive, the first ones first.  Exempt is a group that names
\* ids without rows: when an edit that raced an earlier refresh left nothing else in it,
\* clear mode finds no row to delete and leaves the list alone.
Reconciled ==
    step = "done" /\ ~edited /\ ~leaked /\ (\A id \in ToSet(list) : Alive(id)) =>
        /\ LET own == Without(list, job.kept \cup {s[2] : s \in ToSet(job.sticky)})
           IN  [i \in DOMAIN own |-> rows[own[i]]] = job.doc
        /\ \A i \in DOMAIN job.old :
             LET c == job.was[job.old[i]]
             IN  Upto(job.old, i, {id \in Ids : job.was[id] = c})
                   <= Upto(job.doc, Len(job.doc), {c})
                 => job.old[i] \in ToSet(list) /\ rows[job.old[i]] = c
=============================================================================
