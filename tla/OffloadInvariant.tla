-------------------------- MODULE OffloadInvariant --------------------------
(***************************************************************************)
(* The inductive invariant of Offload: where a request can be between its  *)
(* post and its completion, and what the shared words hold meanwhile.      *)
(***************************************************************************)
EXTENDS Offload

InCall(t) == pc[t] \notin {"idle", "join", "finalized"}

HasIndex(t) == pc[t] \in {"done", "copy", "clear", "release", "flag", "take"}

\* The offload thread has a command in hand, and has given it a slot.
Hand    == {"acquire", "reset", "publish", "call", "blocked"}
HasSlot == {"reset", "publish", "call", "blocked", "test", "mark"}

\* test_requests has set done_ and not yet erased element i.
Erasing(i) == opc = "erase" /\ i = it

\* PMPI_Test has seen the operation of r, which holds s, finish.
Completed(r, s) ==
    CallsMayFail \/ (CurrentOp(r) \in finished /\ statuses[s] = OwnStatus(r))

\* The slot holds what PMPI_Test needs to see it finish.
Outstanding(r, s) ==
    CallsMayFail \/ IF r \in NullRequests
                    THEN CurrentOp(r) \in finished /\ requests[s] = MPI_REQUEST_NULL
                    ELSE requests[s] = CurrentOp(r)

\* A thread in a call has its own request, and its right slot.
ThreadOK(t) ==
    /\ InCall(t) => /\ req[t] \in Requests
                    /\ phase[req[t]] = IF pc[t] = "enqueue" THEN "posting" ELSE "busy"
    /\ HasIndex(t) => idx[t] = word[req[t]] /\ idx[t] \in Usable
    /\ pc[t] \in {"copy", "clear", "take"} => done[idx[t]]
    /\ pc[t] = "clear" => CallsMayFail \/ status[req[t]] = OwnStatus(req[t])
    /\ pc[t] = "release" =>
          /\ ~done[idx[t]]
          /\ \A i \in 1 .. Len(used) : used[i] = idx[t] => Erasing(i)
          /\ CallsMayFail \/ /\ status[req[t]] = OwnStatus(req[t])
                             /\ CurrentOp(req[t]) \in finished

ThreadInv ==
    /\ \A t \in Threads : ThreadOK(t)
    /\ \A t, u \in Threads : InCall(t) /\ InCall(u) /\ req[t] = req[u] => t = u

\* A request being posted is invalidated, and its operation is new.
RequestOK(r) ==
    /\ Live(r) => posts[r] \in 1 .. MaxPosts /\ word[r] \in Usable \cup {INVALID_INDEX}
    /\ phase[r] = "posting" => word[r] = INVALID_INDEX /\ CurrentOp(r) \notin started
    /\ \A n \in 1 .. MaxPosts : n > posts[r] => <<r, n>> \notin started

RequestInv == \A r \in Requests : RequestOK(r)

\* c is the command of the current, posted operation of its request.
IsCurrent(c) ==
    /\ phase[c.request] \in {"active", "busy"}
    /\ c.post = posts[c.request]
    /\ c.null_request = (c.request \in NullRequests)

\* A queued request is invalidated, not started, queued once and not in hand.
QueuedOK(c) ==
    /\ IsCurrent(c)
    /\ word[c.request] = INVALID_INDEX
    /\ CurrentOp(c.request) \notin started
    /\ opc \in Hand => c.request # command.request

QueueInv ==
    /\ \A i \in 1 .. Len(queue) : QueuedOK(queue[i])
    /\ \A i, j \in 1 .. Len(queue) : queue[i].request = queue[j].request => i = j

\* The command in hand is current; its word is valid from publish on, its
\* operation started from the call on.
HandInv ==
    /\ opc \in Hand =>
        /\ command \in Commands
        /\ IsCurrent(command)
        /\ word[command.request] = IF opc \in {"call", "blocked"} THEN slot ELSE INVALID_INDEX
        /\ CommandOp \in started <=> opc = "blocked"
        /\ opc = "blocked" => command.null_request
    /\ opc \notin Hand \cup {"crashed"} => command = nullptr
    /\ opc \in HasSlot => slot \in Usable /\ used # << >> /\ used[1] = slot

\* A used slot is held by a request, not free and not done; all are distinct.
UsedOK(i) ==
    /\ used[i] \in Usable
    /\ ~Erasing(i) => /\ used[i] \notin free
                      /\ ~done[used[i]]
                      /\ \E r \in Requests : Holds(r, used[i])

UsedInv ==
    /\ opc \in {"scanmark", "erase"} => it \in 1 .. Len(used)
    /\ \A i, j \in 1 .. Len(used) : used[i] = used[j] => i = j
    /\ opc # "crashed" => \A i \in 1 .. Len(used) : UsedOK(i)

\* Once the call has been made, the slot of a used request leads to its completion.
TestOK(i, r) ==
    IF i = 1 /\ opc \in {"call", "blocked"}
    THEN TRUE
    ELSE IF \/ i = 1 /\ opc = "mark"
            \/ i = it /\ opc \in {"scanmark", "erase"}
         THEN Completed(r, used[i])
         ELSE Outstanding(r, used[i])

TestInv ==
    opc # "crashed" => \A i \in 1 .. Len(used), r \in Requests :
        Live(r) /\ word[r] = used[i] => TestOK(i, r)

\* done_ speaks for the request that holds the slot, and is clear in the pool.
FlagOK(s) ==
    done[s] => /\ s \notin free
               /\ \A r \in Requests : Live(r) /\ word[r] = s => Completed(r, s)

FlagInv == \A s \in Usable : FlagOK(s)

\* MPI_Finalize begins when no operation is outstanding; only operations of
\* live requests are.
StopInv ==
    /\ ~running => \A r \in Requests : ~Live(r)
    /\ opc = "exited" => ~running
    /\ CallsMayFail \/ \A r \in Requests, n \in 1 .. MaxPosts :
          <<r, n>> \in started \ finished => Live(r) /\ n = posts[r]

IInv ==
    /\ TypeOK /\ ThreadInv /\ RequestInv /\ QueueInv /\ HandInv /\ UsedInv
    /\ TestInv /\ FlagInv /\ SlotExclusive /\ UsedIsTestable /\ StopInv
=============================================================================
