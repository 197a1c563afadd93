----------------------------- MODULE CirBuffers -----------------------------
(***************************************************************************)
(* Channel-impulse-response buffers in the C++ client (client/src): one     *)
(* CIRBatchAllocation through AllocateCIRResultsMemory, GetChannelImpulse-   *)
(* Response, FetchBuffer, DeallocateCIRResultsMemory and its destructor.     *)
(*                                                                         *)
(* The transport negotiated is REMOTE (with LOCAL_IPC, FetchBuffer opens a   *)
(* handle and touches none of this state).  FetchBuffer keeps one local copy *)
(* of each buffer and pulls it over a gRPC stream or, with UCX, by posting a *)
(* tagged receive and asking the server in a second thread to send.          *)
(* The server is external: it is known by what client.cpp asks of it.        *)
(***************************************************************************)
EXTENDS Integers, FiniteSets

CONSTANTS
  Buffer,       \* "values", "delays", the angles: the buffers of an allocation
  Block,        \* bound: the receive buffers malloc or cudaMalloc may return
  NoBlock,      \* nullptr
  Chunks,       \* chunks the server cuts a buffer into
  MaxKeys,      \* bound: allocations made on the server
  MaxComputes   \* bound: GetChannelImpulseResponse calls

ASSUME CirAssumption ==
  /\ "none" \notin Buffer
  /\ NoBlock \notin Block
  /\ Chunks \in Nat \ {0}
  /\ MaxKeys \in Nat
  /\ MaxComputes \in Nat

VARIABLES
  build,      \* what was compiled in and negotiated; never changes
  serverKeys, \* the allocations the server holds
  alive,      \* the CIRBatchAllocation object has not been destroyed
  key,        \* its allocation_key, 0 before the first allocation
  sized,      \* sized[b]: total_<b>_bytes > 0
  ptr,        \* local_<b>_ptr
  fetched,    \* <b>_fetched
  memType,    \* <b>_mem_type
  heap,       \* the receive buffers: free or not, by which allocator, contents
  handed,     \* the blocks behind the ScopedBuffers the caller still holds
  computes,   \* GetChannelImpulseResponse calls so far
  call,       \* the FetchBuffer call in progress: its buffer, or none
  recv,       \* the posted UCX receive
  rpc,        \* RequestDataTransfer, in the second thread
  push        \* the server's part of that transfer

allocVars == <<alive, key, sized, computes>>
localVars == <<ptr, fetched, memType>>
ucxVars   == <<recv, rpc, push>>
vars == <<build, serverKeys, allocVars, localVars, heap, handed, call, ucxVars>>

Kind   == {"GPU", "CPU"}
NoCall == [buf |-> "none", got |-> 0]

Idle == call = NoCall

-----------------------------------------------------------------------------
(* Blocks.                                                                  *)

Live(k) == heap[k].state = "live"

Empty(state, kind) == [state |-> state, kind |-> kind, got |-> 0, at |-> 0]
Unused == Empty("unused", "CPU")
Freed  == Empty("freed", "CPU")

\* What malloc or cudaMalloc returns; one fresh block is as good as another.
Fresh == {k \in Block : heap[k] = Unused}
NewBlock == CHOOSE k \in Fresh : TRUE

Malloc(kind) ==
  /\ Fresh # {}
  /\ heap' = [heap EXCEPT ![NewBlock] = Empty("live", kind)]

Free(K) == [k \in Block |-> IF k \in K THEN Freed ELSE heap[k]]

\* Data from the server is written to a block: n chunks so far.
Fill(k, n) == heap' = [heap EXCEPT ![k] = [@ EXCEPT !.got = n, !.at = computes]]

LocalBlocks == {ptr[b] : b \in Buffer} \ {NoBlock}

\* cleanup_failed_fetch for the buffer being fetched.
CleanupFailedFetch ==
  /\ heap' = Free({ptr[call.buf]})
  /\ ptr' = [ptr EXCEPT ![call.buf] = NoBlock]
  /\ fetched' = [fetched EXCEPT ![call.buf] = FALSE]
  /\ UNCHANGED <<memType, handed>>

\* The fetch succeeded: the buffer is cached and handed to the caller.
FinishFetch ==
  /\ fetched' = [fetched EXCEPT ![call.buf] = TRUE]
  /\ handed' = handed \cup {ptr[call.buf]}
  /\ UNCHANGED <<ptr, memType, heap>>

-----------------------------------------------------------------------------
(* The allocation.                                                          *)

\* AllocateCIRResultsMemory, into an object that may hold an allocation already; the
\* server says which buffers have any bytes.  Nothing local is touched.
Allocate(nonempty) ==
  /\ alive /\ Idle
  /\ key < MaxKeys
  /\ key' = key + 1
  /\ serverKeys' = serverKeys \cup {key'}
  /\ sized' = [b \in Buffer |-> b \in nonempty]
  /\ UNCHANGED <<build, alive, computes, localVars, heap, handed, call, ucxVars>>

\* Mutant: the cache is only invalidated when the computation succeeds.
ComputeThenInvalidate(ok) ==
  /\ alive /\ Idle /\ key # 0
  /\ ok => key \in serverKeys
  /\ computes < MaxComputes
  /\ computes' = computes + 1
  /\ fetched' = IF ok THEN [b \in Buffer |-> FALSE] ELSE fetched
  /\ UNCHANGED <<build, serverKeys, alive, key, sized, ptr, memType, heap, handed,
                 call, ucxVars>>

\* GetChannelImpulseResponse: the cache is invalidated however the stream ends.
Compute(ok) ==
  /\ alive /\ Idle /\ key # 0
  /\ ok => key \in serverKeys
  /\ computes < MaxComputes
  /\ computes' = computes + 1
  /\ fetched' = [b \in Buffer |-> FALSE]
  /\ UNCHANGED <<build, serverKeys, alive, key, sized, ptr, memType, heap, handed,
                 call, ucxVars>>

\* DeallocateCIRResultsMemory, which gives up when the server does not know the
\* allocation; from here on the caller's buffers are gone.
Deallocate ==
  /\ alive /\ Idle
  /\ key \in serverKeys
  /\ serverKeys' = serverKeys \ {key}
  /\ heap' = Free(LocalBlocks)
  /\ ptr' = [b \in Buffer |-> NoBlock]
  /\ fetched' = [b \in Buffer |-> FALSE]
  /\ handed' = {}
  /\ UNCHANGED <<build, allocVars, memType, call, ucxVars>>

\* The destructor's safety net.
Destroy ==
  /\ alive /\ Idle
  /\ alive' = FALSE
  /\ heap' = Free(LocalBlocks)
  /\ handed' = {}
  /\ UNCHANGED <<build, serverKeys, key, sized, computes, localVars, call, ucxVars>>

\* The server restarts, or a client that forced its way in made it clean up.
ServerForgets ==
  /\ serverKeys # {}
  /\ serverKeys' = {}
  /\ UNCHANGED <<build, allocVars, localVars, heap, handed, call, ucxVars>>

-----------------------------------------------------------------------------
(* FetchBuffer.                                                             *)

Missing(b) == ~fetched[b] /\ sized[b]

\* Already fetched, or nothing to fetch: the cached pointer is returned.
FetchCached(b) ==
  /\ alive /\ Idle
  /\ ~Missing(b)
  /\ handed' = handed \cup ({ptr[b]} \ {NoBlock})
  /\ UNCHANGED <<build, serverKeys, allocVars, localVars, heap, call, ucxVars>>

\* The receive buffer cannot be allocated; without CUDA a request for GPU memory
\* returns before the pointer is assigned.
FetchOutOfMemory(b, target) ==
  /\ alive /\ Idle
  /\ Missing(b)
  /\ memType' = [memType EXCEPT ![b] = target]
  /\ ptr' = IF target = "GPU" /\ ~build.cuda THEN ptr
                                             ELSE [ptr EXCEPT ![b] = NoBlock]
  /\ UNCHANGED <<build, serverKeys, allocVars, fetched, heap, handed, call, ucxVars>>

\* The transfer begins: a stream is opened, or the receive is posted and the pull
\* requested.  An old pointer is overwritten.
BeginTransfer(b) ==
  \/ /\ build.protocol = "GRPC"
     /\ call' = [buf |-> b, got |-> 0]
     /\ UNCHANGED ucxVars
  \/ /\ build.protocol = "UCX" /\ build.ucx
     /\ call' = [buf |-> b, got |-> 0]
     /\ recv' = IF build.endpoint THEN "pending" ELSE "failed"
     /\ rpc' = "running"
     /\ push' = "asked"

\* Mutant: the buffer fetched before is freed when it is replaced.
StartFetchFreeing(b, target) ==
  /\ alive /\ Idle
  /\ Missing(b)
  /\ target = "GPU" => build.cuda
  /\ Fresh # {}
  /\ heap' = [Free({ptr[b]}) EXCEPT ![NewBlock] = Empty("live", target)]
  /\ ptr' = [ptr EXCEPT ![b] = NewBlock]
  /\ memType' = [memType EXCEPT ![b] = target]
  /\ BeginTransfer(b)
  /\ UNCHANGED <<build, serverKeys, allocVars, fetched, handed>>

\* Mutant: the memory type is left for later.
StartFetchUntyped(b, target) ==
  /\ alive /\ Idle
  /\ Missing(b)
  /\ target = "GPU" => build.cuda
  /\ Malloc(target)
  /\ ptr' = [ptr EXCEPT ![b] = NewBlock]
  /\ UNCHANGED memType
  /\ BeginTransfer(b)
  /\ UNCHANGED <<build, serverKeys, allocVars, fetched, handed>>

\* A miss: a receive buffer is allocated and the transfer starts.
StartFetch(b, target) ==
  /\ alive /\ Idle
  /\ Missing(b)
  /\ target = "GPU" => build.cuda
  /\ Malloc(target)
  /\ ptr' = [ptr EXCEPT ![b] = NewBlock]
  /\ memType' = [memType EXCEPT ![b] = target]
  /\ BeginTransfer(b)
  /\ UNCHANGED <<build, serverKeys, allocVars, fetched, handed>>

\* REMOTE over UCX was negotiated by a client built without UCX: the new buffer is
\* freed again.
FetchWithoutUcx(b, target) ==
  /\ alive /\ Idle
  /\ Missing(b)
  /\ target = "GPU" => build.cuda
  /\ build.protocol = "UCX" /\ ~build.ucx
  /\ Fresh # {}
  /\ heap' = Free({NewBlock})
  /\ ptr' = [ptr EXCEPT ![b] = NoBlock]
  /\ memType' = [memType EXCEPT ![b] = target]
  /\ UNCHANGED <<build, serverKeys, allocVars, fetched, handed, call, ucxVars>>

-----------------------------------------------------------------------------
(* A pull over the gRPC stream.                                             *)

Streaming == ~Idle /\ build.protocol = "GRPC"

\* Read returns a chunk, which is copied to its offset.
ReadChunk ==
  /\ Streaming
  /\ key \in serverKeys
  /\ call.got < Chunks
  /\ call' = [call EXCEPT !.got = @ + 1]
  /\ Fill(ptr[call.buf], heap[ptr[call.buf]].got + 1)
  /\ UNCHANGED <<build, serverKeys, allocVars, localVars, handed, ucxVars>>

\* The stream ends: a bad chunk, an error status or a short count fails the fetch.
StreamEnds ==
  /\ Streaming
  /\ call' = NoCall
  /\ (call.got = Chunks /\ FinishFetch) \/ CleanupFailedFetch
  /\ UNCHANGED <<build, serverKeys, allocVars, ucxVars>>

-----------------------------------------------------------------------------
(* A pull over UCX: two threads and the server's handler.                   *)

\* The server finds nothing to send, or its send fails before it matches.
ServerRefuses ==
  /\ push = "asked"
  /\ push' = "over"
  /\ rpc' = IF rpc = "running" THEN "failed" ELSE rpc
  /\ UNCHANGED <<build, serverKeys, allocVars, localVars, heap, handed, call, recv>>

\* Its tagged send matches the posted receive.
ServerSends ==
  /\ push = "asked"
  /\ key \in serverKeys
  /\ recv = "pending"
  /\ push' = "sending"
  /\ UNCHANGED <<build, serverKeys, allocVars, localVars, heap, handed, call, recv, rpc>>

\* All data is there; the server's answer arrives or is lost.
Delivered ==
  /\ push = "sending"
  /\ push' = "over"
  /\ recv' = "done"
  /\ rpc' \in IF rpc = "running" THEN {"ok", "running"} ELSE {rpc}
  /\ Fill(ptr[call.buf], Chunks)
  /\ UNCHANGED <<build, serverKeys, allocVars, localVars, handed, call>>

\* The transfer breaks off; the server may or may not notice, or answer.
TransferBreaks ==
  /\ push = "sending"
  /\ push' = "over"
  /\ recv' = "failed"
  /\ rpc' \in IF rpc = "running" THEN {"ok", "failed", "running"} ELSE {rpc}
  /\ UNCHANGED <<build, serverKeys, allocVars, localVars, heap, handed, call>>

\* Mutant: the request expires only when the server is at work on it.
RpcDeadline_AtWork ==
  /\ rpc = "running" /\ push = "sending"
  /\ rpc' = "failed"
  /\ UNCHANGED <<build, serverKeys, allocVars, localVars, heap, handed, call, recv, push>>

\* RequestDataTransfer has a deadline of ten seconds; the server is not stopped.
RpcDeadline ==
  /\ rpc = "running"
  /\ rpc' = "failed"
  /\ UNCHANGED <<build, serverKeys, allocVars, localVars, heap, handed, call, recv, push>>

\* Mutant: the outcome of the request is looked at before the receive is awaited.
FinishUcxOnReply ==
  /\ rpc \in {"ok", "failed"}
  /\ rpc = "ok" => recv \in {"done", "failed"}
  /\ call' = NoCall
  /\ IF rpc = "ok" /\ recv = "done" THEN FinishFetch ELSE CleanupFailedFetch
  /\ rpc' = "none"
  /\ recv' = IF recv = "pending" THEN recv ELSE "none"
  /\ push' = IF recv = "pending" THEN push ELSE "none"
  /\ UNCHANGED <<build, serverKeys, allocVars>>

\* WaitRecv has returned and so has the request: both must have succeeded.
FinishUcx ==
  /\ recv \in {"done", "failed"}
  /\ rpc \in {"ok", "failed"}
  /\ call' = NoCall
  /\ IF rpc = "ok" /\ recv = "done" THEN FinishFetch ELSE CleanupFailedFetch
  /\ recv' = "none" /\ rpc' = "none" /\ push' = "none"
  /\ UNCHANGED <<build, serverKeys, allocVars>>

-----------------------------------------------------------------------------
Init ==
  /\ build \in [cuda : BOOLEAN, ucx : BOOLEAN, protocol : {"GRPC", "UCX"},
                endpoint : BOOLEAN]
  /\ build.endpoint => build.ucx /\ build.protocol = "UCX"
  /\ serverKeys = {}
  /\ alive = TRUE
  /\ key = 0
  /\ sized = [b \in Buffer |-> FALSE]
  /\ ptr = [b \in Buffer |-> NoBlock]
  /\ fetched = [b \in Buffer |-> FALSE]
  /\ memType = [b \in Buffer |-> "GPU"]
  /\ heap = [k \in Block |-> Unused]
  /\ handed = {}
  /\ computes = 0
  /\ call = NoCall
  /\ recv = "none" /\ rpc = "none" /\ push = "none"

Caller ==
  \/ \E nonempty \in SUBSET Buffer : Allocate(nonempty)
  \/ \E ok \in BOOLEAN : Compute(ok)
  \/ Deallocate
  \/ Destroy
  \/ \E b \in Buffer :
       \/ FetchCached(b)
       \/ \E target \in Kind :
            \/ FetchOutOfMemory(b, target)
            \/ StartFetch(b, target)
            \/ FetchWithoutUcx(b, target)

Stream == ReadChunk \/ StreamEnds

Ucx == ServerRefuses \/ ServerSends \/ Delivered \/ TransferBreaks \/ RpcDeadline

Next == Caller \/ ServerForgets \/ Stream \/ Ucx \/ FinishUcx

\* The client's own part: the deadline of its request expires and the thread in
\* FetchBuffer runs on.  Nothing is asked of the server; the stream has no deadline.
Fairness == WF_vars(RpcDeadline) /\ WF_vars(FinishUcx)

Spec == Init /\ [][Next]_vars /\ Fairness

\* A server that decides on every request, and whose transfers end one way or another.
ServerFairness == WF_vars(ServerRefuses \/ ServerSends) /\ WF_vars(Delivered \/ TransferBreaks)

FairServerSpec == Spec /\ ServerFairness

-----------------------------------------------------------------------------
BlockState == [state : {"unused", "live", "freed"}, kind : Kind, got : 0..Chunks,
               at : 0..MaxComputes]

\* Every variable has its type.
TypeOK ==
  /\ build \in [cuda : BOOLEAN, ucx : BOOLEAN, protocol : {"GRPC", "UCX"},
                endpoint : BOOLEAN]
  /\ serverKeys \subseteq 1..MaxKeys
  /\ alive \in BOOLEAN
  /\ key \in 0..MaxKeys
  /\ sized \in [Buffer -> BOOLEAN]
  /\ ptr \in [Buffer -> Block \cup {NoBlock}]
  /\ fetched \in [Buffer -> BOOLEAN]
  /\ memType \in [Buffer -> Kind]
  /\ heap \in [Block -> BlockState]
  /\ handed \subseteq Block
  /\ computes \in 0..MaxComputes
  /\ call = NoCall \/ call \in [buf : Buffer, got : 0..Chunks]
  /\ recv \in {"none", "pending", "done", "failed"}
  /\ rpc \in {"none", "running", "ok", "failed"}
  /\ push \in {"none", "asked", "sending", "over"}

\* A buffer marked as fetched is complete and was pulled after the last computation
\* began, so that no call of FetchBuffer returns results of an earlier one.
CachedIsCurrent ==
  \A b \in Buffer :
    alive /\ fetched[b] => /\ ptr[b] # NoBlock
                           /\ heap[ptr[b]].got = Chunks
                           /\ heap[ptr[b]].at = computes

\* The memory behind a ScopedBuffer stays valid until the caller deallocates or
\* destroys the allocation: neither a new computation nor a fetch that fails frees it.
CallerBuffersLive == \A k \in handed : Live(k)

\* While a receive is posted, the memory it writes to is not freed.
ReceiveIntoLive == recv = "pending" => ~Idle /\ Live(ptr[call.buf])

\* A pointer the allocation holds is live, is held for one buffer only and is freed by
\* the allocator it came from.
FreedByItsAllocator ==
  alive =>
    \A b \in Buffer : ptr[b] # NoBlock =>
      /\ Live(ptr[b])
      /\ build.cuda => heap[ptr[b]].kind = memType[b]
      /\ \A c \in Buffer \ {b} : ptr[c] # ptr[b]

\* Once its receive has ended, well or badly, a fetch over UCX returns, whatever becomes
\* of the request in the other thread and of a server that never answers it.
EndedReceiveReturns == recv \in {"done", "failed"} ~> Idle

\* What ucx_transport.h:25 says of the receive split in two: it avoids a deadlock; so
\* a fetch over UCX returns too, at least from a server that goes on.
\* Refuted: CirUcxHang.cfg has the counterexample.
UcxFetchReturns == (~Idle /\ build.protocol = "UCX") ~> Idle

\* What client.h:403 says of the destructor: it frees the receive buffers that were
\* not deallocated.
\* Refuted: CirLeak.cfg has the counterexample.
NothingLeaks == ~alive => \A k \in Block : ~Live(k)
=============================================================================
