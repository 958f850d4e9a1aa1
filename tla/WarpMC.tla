------------------------------- MODULE WarpMC -------------------------------
(* Instances of WarpBlock for TLC: the kernels, each with a few tiles, chunks,
   tokens or work units. *)
EXTENDS WarpBlock

FO == INSTANCE FwdO
BW == INSTANCE BwdWyDqkg
PF == INSTANCE PrefillSm100
PS == INSTANCE PreScanSm100
FU == INSTANCE KdaFused
LA == INSTANCE LinearAttn
PH == INSTANCE PrefillSm90
FK == INSTANCE FlashKda
CM == INSTANCE CarryMerge
DS == INSTANCE DecodeStep
MD == INSTANCE MtpDecode
KB == INSTANCE KvBufferDecode
LD == INSTANCE LightningDecode
MI == INSTANCE MatrixInverse

\* SM100, warp-specialised, with tensor memory.
Sm100Kernels ==
    [fwd_o |-> FO!Kernel(3, TRUE, FALSE),
     fwd_o_varlen |-> FO!Kernel(3, TRUE, TRUE),
     fwd_o_static |-> FO!Kernel(1, FALSE, FALSE),
     bwd |-> BW!Kernel(2),
     prefill |-> PF!Kernel(<<1, 2>>, TRUE, TRUE, TRUE),
     prefill_static |-> PF!Kernel(<<3>>, FALSE, FALSE, FALSE),
     pre_scan |-> PS!Kernel(3, TRUE, TRUE),
     pre_scan_m |-> PS!Kernel(2, FALSE, FALSE),
     fused |-> FU!Kernel(2, FALSE, TRUE, FALSE),
     fused_state |-> FU!Kernel(1, TRUE, FALSE, TRUE),
     linear |-> LA!Kernel(3)]

\* SM90.
Sm90Kernels ==
    [prefill90 |-> PH!Kernel(<<4>>),
     prefill90_varlen |-> PH!Kernel(<<2, 0, 1>>),
     k1 |-> FK!K1Kernel,
     k2 |-> FK!K2Kernel(3, FALSE),
     k2_tail |-> FK!K2Kernel(2, TRUE),
     scan |-> FK!ScanKernel(3, FALSE),
     scan_tail |-> FK!ScanKernel(2, TRUE)]

\* Blocks whose warps only meet at block barriers.
BlockKernels ==
    [merge90 |-> CM!Kernel90(3, TRUE),
     merge90_zero |-> CM!Kernel90(2, FALSE),
     merge100 |-> CM!Kernel100(3, TRUE),
     merge100_zero |-> CM!Kernel100(2, FALSE),
     decode |-> DS!SmallBatchKernel(2, 1, TRUE),
     decode_varlen |-> DS!SmallBatchVarlenKernel(2, FALSE),
     decode_large |-> DS!LargeBatchKernel(TRUE),
     decode_large_varlen |-> DS!LargeBatchVarlenKernel(FALSE),
     mtp |-> MD!VerifyKernel(FALSE),
     mtp_staged |-> MD!VerifyKernel(TRUE),
     mtp_recurrent |-> MD!RecurrentKernel(2),
     mtp_conv |-> MD!SmallBatchKernel(5),
     mtp_conv_large |-> MD!LargeBatchKernel,
     kvbuffer |-> KB!ShuffleKernel,
     kvbuffer_tc |-> KB!TensorCoreKernel(2),
     kvbuffer_conv |-> KB!ConvKernel(2),
     lightning_decode |-> LD!DecodeKernel(4),
     lightning_decode_big |-> LD!BigBatchKernel(3),
     la_verify |-> LD!VerifyKernel,
     la_verify_shuffle |-> LD!VerifyShuffleKernel,
     inverse |-> MI!InverseKernel]

AllKernels == Sm100Kernels @@ Sm90Kernels @@ BlockKernels

\* One kernel by itself.
PrefillKernel == [prefill |-> Sm100Kernels.prefill]

-----------------------------------------------------------------------------
\* An order of the events of a kernel: that of the run in which always some
\* agent goes on of whose next event all direct predecessors are behind it.
\* (@@ makes TLC evaluate a function at once.)
NextInOrder(k, direct, order) ==
    LET Able(a) == /\ order.done[a] < Len(Acts(k, a))
                   /\ \A d \in direct[<<a, order.done[a] + 1>>] : d[2] <= order.done[d[1]]
    IN IF \A a \in Agents(k) : ~Able(a) THEN order
       ELSE LET a == CHOOSE x \in Agents(k) : Able(x)
                e == <<a, order.done[a] + 1>>
                known == {<<d, order.clock[d]>> : d \in direct[e]}
                clock == [m \in Agents(k) |->
                            Max({0} \cup {z[2][m] : z \in known}
                                    \cup {z[1][2] : z \in {y \in known : y[1][1] = m}})]
            IN [done |-> <<>> @@ [order.done EXCEPT ![a] = @ + 1],
                clock |-> (e :> (<<>> @@ clock)) @@ order.clock,
                rank |-> (e :> Cardinality(DOMAIN order.rank)) @@ order.rank]

\* n events more, by halves, the first of which is there before the second
\* begins: the recursion stays shallow.
RECURSIVE OrderFrom(_, _, _, _)
OrderFrom(k, direct, n, order) ==
    IF n <= 1 THEN NextInOrder(k, direct, order)
    ELSE CHOOSE whole \in {OrderFrom(k, direct, n - n \div 2, half) :
                              half \in {OrderFrom(k, direct, n \div 2, order)}} : TRUE
OrderOf(k) ==
    OrderFrom(k, <<>> @@ [e \in Events(k) |-> Direct(k, e)], Cardinality(Events(k)),
              [done |-> <<>> @@ [a \in Agents(k) |-> 0], clock |-> <<>>, rank |-> <<>>])

\* The steps of every kernel whose barriers last as long as its block are in
\* order: in that of a run, so that they are in every run.
Lasting == {name \in DOMAIN Kernels : \A e \in Events(Code[name]) : Act(Code[name], e).renew = {}}
InOrder(k, order) ==
    /\ Sound(k, order) /\ Alternating(k, order)
    /\ ReadsInOrder(k, order) /\ PeeksInOrder(k, order)
    /\ AwaitsInOrder(k, order) /\ LeavesInOrder(k, order)
ASSUME OrderAssumption == \A name \in Lasting : InOrder(Code[name], OrderOf(Code[name]))
=============================================================================
