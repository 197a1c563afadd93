-------------------------- MODULE CirBuffersProofs --------------------------
(***************************************************************************)
(* The invariants of CirBuffers for any buffers, any number of receive      *)
(* buffers, chunks, allocations and computations.  They need what is known  *)
(* of a fetch in progress: its block is live, is not one a caller holds, and *)
(* has received what the client counted.                                    *)
(***************************************************************************)
EXTENDS CirBuffers, TLAPS

\* A fetch in progress fills a live block that no caller holds; over the stream the
\* block has received what was counted.
FetchInProgress ==
  ~Idle =>
    /\ alive
    /\ ~fetched[call.buf]
    /\ ptr[call.buf] \in Block \ handed
    /\ Live(ptr[call.buf])
    /\ Streaming => /\ heap[ptr[call.buf]].got = call.got
                    /\ call.got > 0 => heap[ptr[call.buf]].at = computes

\* The two threads and the server's handler, as far as the receive goes.
Handshake ==
  /\ recv # "none" => ~Idle /\ ~Streaming
  /\ recv = "none" => push = "none" /\ rpc = "none"
  /\ push = "sending" => recv = "pending"
  /\ recv = "done" => /\ heap[ptr[call.buf]].got = Chunks
                      /\ heap[ptr[call.buf]].at = computes

IInv ==
  /\ TypeOK
  /\ CachedIsCurrent
  /\ CallerBuffersLive
  /\ ReceiveIntoLive
  /\ FreedByItsAllocator
  /\ FetchInProgress
  /\ Handshake

-----------------------------------------------------------------------------
(* Blocks.                                                                  *)

\* A new block is a block, and was not in use.
LEMMA NewBlockIsFresh ==
  ASSUME Fresh # {}
  PROVE  NewBlock \in Block /\ heap[NewBlock] = Unused
BY DEF NewBlock, Fresh

\* malloc changes one block only, which was not in use before.
LEMMA MallocType ==
  ASSUME TypeOK, NEW kind \in Kind, Malloc(kind)
  PROVE  /\ heap' \in [Block -> BlockState]
         /\ NewBlock \in Block
         /\ heap'[NewBlock] = Empty("live", kind)
         /\ \A k \in Block \ {NewBlock} : heap'[k] = heap[k]
         /\ ~Live(NewBlock)
<1>1. NewBlock \in Block /\ heap[NewBlock] = Unused
  BY NewBlockIsFresh DEF Malloc
<1>2. Empty("live", kind) \in BlockState
  BY CirAssumption DEF Empty, BlockState
<1>3. ~Live(NewBlock)
  BY <1>1 DEF Live, Unused, Empty
<1>4. heap \in [Block -> BlockState] /\ heap' = [heap EXCEPT ![NewBlock] = Empty("live", kind)]
  BY DEF TypeOK, Malloc
<1> QED
  BY <1>1, <1>2, <1>3, <1>4

\* Freeing blocks leaves the others alone.
LEMMA FreeType ==
  ASSUME TypeOK, NEW K
  PROVE  /\ Free(K) \in [Block -> BlockState]
         /\ \A k \in Block \ K : Free(K)[k] = heap[k]
BY CirAssumption DEF Free, Freed, Empty, TypeOK, BlockState, Kind

-----------------------------------------------------------------------------
\* A chunk that arrives changes the block it is for, and only that block.
LEMMA FillType ==
  ASSUME TypeOK, NEW k \in Block, NEW n \in 0..Chunks, Fill(k, n)
  PROVE  /\ heap' \in [Block -> BlockState]
         /\ heap'[k].state = heap[k].state /\ heap'[k].kind = heap[k].kind
         /\ heap'[k].got = n /\ heap'[k].at = computes
         /\ \A j \in Block \ {k} : heap'[j] = heap[j]
<1>1. heap \in [Block -> BlockState] /\ computes \in 0..MaxComputes
  BY DEF TypeOK
<1> DEFINE h == [heap[k] EXCEPT !.got = n, !.at = computes]
<1>2. heap[k] \in BlockState
  BY <1>1
<1>3. /\ h \in BlockState /\ h.state = heap[k].state /\ h.kind = heap[k].kind
      /\ h.got = n /\ h.at = computes
  BY <1>1, <1>2 DEF BlockState
<1>4. heap' = [heap EXCEPT ![k] = h]
  BY DEF Fill
<1> HIDE DEF h
<1>5. /\ heap' \in [Block -> BlockState] /\ heap'[k] = h
      /\ \A j \in Block \ {k} : heap'[j] = heap[j]
  BY <1>1, <1>3, <1>4
<1> QED
  BY <1>3, <1>5

\* The end of a fetch that succeeded: its block was complete.
LEMMA FinishFetchInv ==
  ASSUME IInv, ~Idle, FinishFetch, call' = NoCall,
         heap[ptr[call.buf]].got = Chunks, heap[ptr[call.buf]].at = computes,
         recv' = "none", rpc' = "none", push' = "none",
         UNCHANGED <<build, serverKeys, allocVars>>
  PROVE  IInv'
<1> USE CirAssumption DEF IInv, TypeOK, allocVars, FinishFetch, FetchInProgress
<1>1. call.buf \in Buffer /\ ptr[call.buf] \in Block /\ Live(ptr[call.buf])
  BY DEF Idle
<1>2. TypeOK'
  BY <1>1
<1>3. CachedIsCurrent'
  BY <1>1 DEF CachedIsCurrent
<1>4. CallerBuffersLive' /\ ReceiveIntoLive'
  BY <1>1 DEF CallerBuffersLive, ReceiveIntoLive, Live
<1>5. FreedByItsAllocator'
  BY DEF FreedByItsAllocator, Live
<1>6. FetchInProgress' /\ Handshake'
  BY DEF Idle, Handshake
<1> QED
  BY <1>2, <1>3, <1>4, <1>5, <1>6

\* The end of a fetch that failed: only its own block is freed.
LEMMA CleanupInv ==
  ASSUME IInv, ~Idle, CleanupFailedFetch, call' = NoCall,
         recv' = "none", rpc' = "none", push' = "none",
         UNCHANGED <<build, serverKeys, allocVars>>
  PROVE  IInv'
<1> USE CirAssumption DEF IInv, TypeOK, allocVars, CleanupFailedFetch, FetchInProgress
<1> DEFINE k == ptr[call.buf]
<1>1. /\ call.buf \in Buffer /\ k \in Block /\ k \notin handed /\ alive
      /\ ~fetched[call.buf]
  BY DEF Idle
<1>2. heap' \in [Block -> BlockState] /\ \A j \in Block \ {k} : heap'[j] = heap[j]
  BY FreeType
<1>3. \A b \in Buffer \ {call.buf} : ptr[b] # k
  BY <1>1 DEF FreedByItsAllocator
<1>4. TypeOK'
  BY <1>1, <1>2
<1>5. \A b \in Buffer \ {call.buf} :
        /\ ptr'[b] = ptr[b] /\ fetched'[b] = fetched[b]
        /\ ptr[b] # NoBlock => ptr[b] \in Block /\ heap'[ptr[b]] = heap[ptr[b]]
  BY <1>1, <1>2, <1>3
<1>6. ptr'[call.buf] = NoBlock /\ fetched'[call.buf] = FALSE
  BY <1>1
<1>7. UNCHANGED <<build, alive, computes, memType, handed>>
  OBVIOUS
<1>9. CallerBuffersLive' /\ ReceiveIntoLive'
  BY <1>1, <1>2 DEF CallerBuffersLive, ReceiveIntoLive, Live
<1>10. FetchInProgress' /\ Handshake'
  BY DEF Idle, Handshake
<1>11. CachedIsCurrent /\ FreedByItsAllocator
  OBVIOUS
<1> USE DEF CachedIsCurrent, FreedByItsAllocator, Live
<1> HIDE DEF IInv, TypeOK, allocVars, CleanupFailedFetch, FetchInProgress, k
<1>12. CachedIsCurrent'
  BY <1>1, <1>5, <1>6, <1>7, <1>11
<1>13. FreedByItsAllocator'
  BY <1>1, <1>5, <1>6, <1>7, <1>11
<1> QED
  BY <1>4, <1>9, <1>10, <1>12, <1>13 DEF IInv

\* Every step preserves the inductive invariant.
LEMMA InvStep == IInv /\ [Next]_vars => IInv'
<1> SUFFICES ASSUME IInv, [Next]_vars PROVE IInv'
  OBVIOUS
<1> USE CirAssumption DEF IInv, TypeOK, CachedIsCurrent, CallerBuffersLive, ReceiveIntoLive, FreedByItsAllocator, FetchInProgress, Handshake, Idle, NoCall, Streaming, Live, BlockState, Kind, allocVars, localVars, ucxVars
<1>1. ASSUME NEW nonempty \in SUBSET Buffer, Allocate(nonempty) PROVE IInv'
  BY <1>1 DEF Allocate
<1>2. ASSUME NEW ok \in BOOLEAN, Compute(ok) PROVE IInv'
  BY <1>2 DEF Compute, Missing
<1>3. ASSUME Deallocate PROVE IInv'
  BY <1>3 DEF Deallocate, Free, Freed, Unused, LocalBlocks, Empty
<1>4. ASSUME Destroy PROVE IInv'
  <2>1. heap' \in [Block -> BlockState]
    BY <1>4, FreeType DEF Destroy
  <2> QED
    BY <1>4, <2>1 DEF Destroy
<1>5. ASSUME NEW b \in Buffer, FetchCached(b) PROVE IInv'
  BY <1>5 DEF FetchCached, Missing
<1>6. ASSUME NEW b \in Buffer, NEW target \in Kind, FetchOutOfMemory(b, target) PROVE IInv'
  BY <1>6 DEF FetchOutOfMemory, Missing
<1>7. ASSUME NEW b \in Buffer, NEW target \in Kind, StartFetch(b, target) PROVE IInv'
  <2>1. /\ heap' \in [Block -> BlockState]
        /\ NewBlock \in Block
        /\ heap'[NewBlock] = Empty("live", target)
        /\ \A k \in Block \ {NewBlock} : heap'[k] = heap[k]
        /\ ~Live(NewBlock)
    BY <1>7, MallocType DEF StartFetch
  <2>2. /\ ptr' = [ptr EXCEPT ![b] = NewBlock]
        /\ memType' = [memType EXCEPT ![b] = target]
        /\ call' = [buf |-> b, got |-> 0]
        /\ ~fetched[b] /\ alive /\ recv = "none"
        /\ UNCHANGED <<build, serverKeys, alive, key, sized, computes, fetched, handed>>
    BY <1>7 DEF StartFetch, Missing, BeginTransfer
  <2>3. \/ build.protocol = "GRPC" /\ UNCHANGED <<recv, rpc, push>>
        \/ /\ build.protocol = "UCX" /\ recv' \in {"pending", "failed"}
           /\ rpc' = "running" /\ push' = "asked"
    BY <1>7 DEF StartFetch, BeginTransfer
  <2>4. TypeOK'
    BY <2>1, <2>2, <2>3
  <2>5. \A c \in Buffer \ {b} :
          /\ ptr'[c] = ptr[c] /\ memType'[c] = memType[c]
          /\ ptr[c] # NoBlock => /\ ptr[c] \in Block \ {NewBlock}
                                 /\ heap'[ptr[c]] = heap[ptr[c]]
    BY <2>1, <2>2
  <2>6. ptr'[b] = NewBlock /\ memType'[b] = target /\ NewBlock # NoBlock
    BY <2>1, <2>2
  <2>7. NewBlock \notin handed /\ \A j \in handed : j \in Block /\ heap'[j] = heap[j]
    BY <2>1
  <2>8. Empty("live", target).state = "live" /\ Empty("live", target).kind = target
    BY DEF Empty
  <2>9. Empty("live", target).got = 0
    BY DEF Empty
  <2>10. CachedIsCurrent /\ CallerBuffersLive /\ FreedByItsAllocator
    OBVIOUS
  <2> HIDE DEF IInv, TypeOK
  <2>11. CachedIsCurrent'
    BY <2>2, <2>5, <2>10
  <2>12. CallerBuffersLive'
    BY <2>2, <2>7, <2>10
  <2>13. FreedByItsAllocator'
    BY <2>1, <2>2, <2>5, <2>6, <2>8, <2>10
  <2>14. heap'[NewBlock].state = "live" /\ ptr'[call'.buf] = NewBlock /\ ~Idle'
    BY <2>1, <2>2, <2>4, <2>6, <2>8 DEF TypeOK
  <2>15. ReceiveIntoLive'
    BY <2>14, <2>6
  <2>16. FetchInProgress'
    BY <2>1, <2>2, <2>6, <2>7, <2>8, <2>9, <2>14
  <2>17. Handshake'
    BY <2>2, <2>3, <2>14 DEF IInv
  <2> QED
    BY <2>4, <2>11, <2>12, <2>13, <2>15, <2>16, <2>17 DEF IInv
<1>8. ASSUME NEW b \in Buffer, NEW target \in Kind, FetchWithoutUcx(b, target) PROVE IInv'
  BY <1>8, NewBlockIsFresh DEF FetchWithoutUcx, Missing, Free, Freed, Unused, Empty
<1>9. ASSUME ServerForgets PROVE IInv'
  BY <1>9 DEF ServerForgets
<1>10. ASSUME ReadChunk PROVE IInv'
  <2> DEFINE k == ptr[call.buf]
  <2>1. /\ call.buf \in Buffer /\ k \in Block /\ k \notin handed /\ Live(k)
        /\ ~fetched[call.buf] /\ alive /\ call.got + 1 \in 0..Chunks /\ ~Idle
        /\ call \in [buf : Buffer, got : 0..Chunks] /\ heap[k].got = call.got
    BY <1>10 DEF ReadChunk
  <2>2. /\ Fill(k, call.got + 1)
        /\ UNCHANGED <<build, serverKeys, alive, key, sized, computes, ptr, fetched,
                       memType, handed>>
    <3>1. Fill(k, heap[k].got + 1)
      BY <1>10 DEF ReadChunk
    <3>2. heap[k].got = call.got
      BY <2>1
    <3>3. UNCHANGED <<build, serverKeys, alive, key, sized, computes, ptr, fetched,
                      memType, handed>>
      BY <1>10 DEF ReadChunk
    <3> HIDE DEF k, IInv
    <3> QED
      BY <3>1, <3>2, <3>3
  <2>3. /\ heap' \in [Block -> BlockState]
        /\ heap'[k].state = heap[k].state /\ heap'[k].kind = heap[k].kind
        /\ heap'[k].got = call.got + 1 /\ heap'[k].at = computes
        /\ \A j \in Block \ {k} : heap'[j] = heap[j]
    BY <2>1, <2>2, FillType
  <2>4. \A c \in Buffer : alive /\ fetched[c] => ptr[c] \in Block \ {k}
    BY <2>1
  <2>5. /\ Streaming /\ call' = [buf |-> call.buf, got |-> call.got + 1] /\ ~Idle'
        /\ UNCHANGED <<recv, rpc, push>>
        /\ call' \in [buf : Buffer, got : 0..Chunks]
    BY <1>10, <2>1 DEF ReadChunk
  <2>6. TypeOK'
    BY <2>1, <2>2, <2>3, <2>5
  <2>7. CachedIsCurrent /\ CallerBuffersLive /\ FreedByItsAllocator /\ ReceiveIntoLive
    OBVIOUS
  <2>8. \A j \in Block : heap'[j].state = heap[j].state /\ heap'[j].kind = heap[j].kind
    BY <2>3
  <2>9. handed \subseteq Block /\ \A c \in Buffer : ptr[c] # NoBlock => ptr[c] \in Block
    OBVIOUS
  <2>10. heap'[k].got = call.got + 1 /\ heap'[k].at = computes /\ heap'[k].state = "live"
    BY <2>1, <2>3
  <2>11. recv \in {"none", "pending", "done", "failed"} /\ Handshake
    OBVIOUS
  <2> HIDE DEF IInv, TypeOK, FetchInProgress, Handshake, k
  <2>12. CachedIsCurrent'
    BY <2>2, <2>3, <2>4, <2>7
  <2>13. CallerBuffersLive'
    BY <2>2, <2>7, <2>8, <2>9
  <2>14. FreedByItsAllocator'
    BY <2>2, <2>7, <2>8, <2>9
  <2>15. ptr'[call'.buf] = k /\ call'.buf = call.buf
    BY <2>1, <2>2, <2>5 DEF k
  <2>16. ReceiveIntoLive'
    BY <2>1, <2>5, <2>10, <2>11, <2>15 DEF Handshake
  <2>17. FetchInProgress'
    BY <2>1, <2>2, <2>5, <2>10, <2>15 DEF FetchInProgress
  <2>18. Handshake'
    BY <2>1, <2>2, <2>5, <2>10, <2>11, <2>15 DEF Handshake
  <2> QED
    BY <2>6, <2>12, <2>13, <2>14, <2>16, <2>17, <2>18 DEF IInv
<1>11. ASSUME StreamEnds PROVE IInv'
  <2>1. CASE call.got = Chunks /\ FinishFetch
    BY <1>11, <2>1, FinishFetchInv DEF StreamEnds
  <2>2. CASE CleanupFailedFetch
    BY <1>11, <2>2, CleanupInv DEF StreamEnds
  <2> QED
    BY <1>11, <2>1, <2>2 DEF StreamEnds
<1>12. ASSUME ServerRefuses PROVE IInv'
  BY <1>12 DEF ServerRefuses
<1>13. ASSUME ServerSends PROVE IInv'
  BY <1>13 DEF ServerSends
<1>14. ASSUME Delivered PROVE IInv'
  <2> DEFINE k == ptr[call.buf]
  <2>1. /\ call.buf \in Buffer /\ k \in Block /\ k \notin handed /\ Live(k)
        /\ ~fetched[call.buf] /\ alive /\ Chunks \in 0..Chunks /\ ~Idle
        /\ call \in [buf : Buffer, got : 0..Chunks]
    BY <1>14 DEF Delivered
  <2>2. /\ Fill(k, Chunks)
        /\ UNCHANGED <<build, serverKeys, alive, key, sized, computes, ptr, fetched,
                       memType, handed>>
    BY <1>14, <2>1 DEF Delivered
  <2>3. /\ heap' \in [Block -> BlockState]
        /\ heap'[k].state = heap[k].state /\ heap'[k].kind = heap[k].kind
        /\ heap'[k].got = Chunks /\ heap'[k].at = computes
        /\ \A j \in Block \ {k} : heap'[j] = heap[j]
    BY <2>1, <2>2, FillType
  <2>4. \A c \in Buffer : alive /\ fetched[c] => ptr[c] \in Block \ {k}
    BY <2>1
  <2>5. /\ recv = "pending" /\ recv' = "done" /\ push' = "over" /\ UNCHANGED call
        /\ rpc' \in {"none", "running", "ok", "failed"} /\ ~Streaming
    BY <1>14, <2>1 DEF Delivered
  <2>6. TypeOK'
    BY <2>1, <2>2, <2>3, <2>5
  <2>7. CachedIsCurrent /\ CallerBuffersLive /\ FreedByItsAllocator /\ ReceiveIntoLive
    OBVIOUS
  <2>8. \A j \in Block : heap'[j].state = heap[j].state /\ heap'[j].kind = heap[j].kind
    BY <2>3
  <2>9. handed \subseteq Block /\ \A c \in Buffer : ptr[c] # NoBlock => ptr[c] \in Block
    OBVIOUS
  <2>10. heap'[k].got = Chunks /\ heap'[k].at = computes /\ heap'[k].state = "live"
    BY <2>1, <2>3
  <2>11. recv \in {"none", "pending", "done", "failed"} /\ Handshake
    OBVIOUS
  <2> HIDE DEF IInv, TypeOK, FetchInProgress, Handshake, k
  <2>12. CachedIsCurrent'
    BY <2>2, <2>3, <2>4, <2>7
  <2>13. CallerBuffersLive'
    BY <2>2, <2>7, <2>8, <2>9
  <2>14. FreedByItsAllocator'
    BY <2>2, <2>7, <2>8, <2>9
  <2>15. ptr'[call'.buf] = k /\ call'.buf = call.buf
    BY <2>1, <2>2, <2>5 DEF k
  <2>16. ReceiveIntoLive'
    BY <2>1, <2>5, <2>10, <2>11, <2>15 DEF Handshake
  <2>17. FetchInProgress'
    BY <2>1, <2>2, <2>5, <2>10, <2>15 DEF FetchInProgress
  <2>18. Handshake'
    BY <2>1, <2>2, <2>5, <2>10, <2>11, <2>15 DEF Handshake
  <2> QED
    BY <2>6, <2>12, <2>13, <2>14, <2>16, <2>17, <2>18 DEF IInv
<1>15. ASSUME TransferBreaks PROVE IInv'
  BY <1>15 DEF TransferBreaks
<1>16. ASSUME RpcDeadline PROVE IInv'
  BY <1>16 DEF RpcDeadline
<1>17. ASSUME FinishUcx PROVE IInv'
  <2>1. CASE rpc = "ok" /\ recv = "done"
    BY <1>17, <2>1, FinishFetchInv DEF FinishUcx
  <2>2. CASE ~(rpc = "ok" /\ recv = "done")
    BY <1>17, <2>2, CleanupInv DEF FinishUcx
  <2> QED
    BY <2>1, <2>2
<1>18. CASE UNCHANGED vars
  BY <1>18 DEF vars
<1> HIDE DEF IInv, Idle, Streaming
<1> QED
  BY <1>1, <1>2, <1>3, <1>4, <1>5, <1>6, <1>7, <1>8, <1>9, <1>10, <1>11, <1>12, <1>13, <1>14, <1>15, <1>16, <1>17, <1>18
     DEF Next, Caller, Stream, Ucx, Kind

\* The inductive invariant holds initially.
LEMMA InvInit == Init => IInv
BY CirAssumption
   DEF Init, IInv, TypeOK, CachedIsCurrent, CallerBuffersLive, ReceiveIntoLive,
       FreedByItsAllocator, FetchInProgress, Handshake, Idle, NoCall, Live, Unused, Empty,
       BlockState, Kind

-----------------------------------------------------------------------------
\* The inductive invariant holds in every reachable state.
THEOREM Invariance == Spec => []IInv
BY InvInit, InvStep, PTL DEF Spec

\* Every variable keeps its type.
THEOREM TypeCorrect == Spec => []TypeOK
<1>1. IInv => TypeOK
  BY DEF IInv
<1> QED
  BY <1>1, Invariance, PTL

\* FetchBuffer never returns a buffer from before the latest computation, nor one that
\* has only arrived in part.
THEOREM CacheCorrect == Spec => []CachedIsCurrent
<1>1. IInv => CachedIsCurrent
  BY DEF IInv
<1> QED
  BY <1>1, Invariance, PTL

\* Memory behind a ScopedBuffer is not freed before the allocation is given up.
THEOREM CallerBuffersStayLive == Spec => []CallerBuffersLive
<1>1. IInv => CallerBuffersLive
  BY DEF IInv
<1> QED
  BY <1>1, Invariance, PTL

\* A posted UCX receive never writes to memory that was freed.
THEOREM ReceiveIsSafe == Spec => []ReceiveIntoLive
<1>1. IInv => ReceiveIntoLive
  BY DEF IInv
<1> QED
  BY <1>1, Invariance, PTL

\* What the allocation will free is live, is freed once and by the right allocator.
THEOREM FreeIsSafe == Spec => []FreedByItsAllocator
<1>1. IInv => FreedByItsAllocator
  BY DEF IInv
<1> QED
  BY <1>1, Invariance, PTL
=============================================================================
