------------------------------ MODULE Placement ------------------------------
(***************************************************************************)
(* The placements a real-load search walks (shared/moePlacement.ts): which *)
(* of a model's layers, and of its experts, are on the GPU, from nothing   *)
(* to everything; what llama.cpp is told to get one, and which one an      *)
(* answer of llama.cpp's own fit is.                                       *)
(*                                                                         *)
(* A model is its number of blocks, the blocks with routed experts in      *)
(* ascending order, and whether their gate and up tensors are fused.  An   *)
(* -ot argument is the set of its entries.                                 *)
(***************************************************************************)
EXTENDS Integers, Sequences, FiniteSets, FiniteSetsExt

CONSTANTS
    MaxBlocks,  \* bound: blocks of a model
    Routed      \* size of a routed expert tensor, in those of the others

ASSUME BlocksAssumption == MaxBlocks \in Nat
ASSUME RoutedAssumption == Routed \in Nat /\ Routed > 3

Increasing(seq) == \A i, j \in DOMAIN seq : i < j => seq[i] < seq[j]

Models ==
    UNION {[blocks : {n}, fused : BOOLEAN,
            moe : {seq \in UNION {[1..k -> 0..(n - 1)] : k \in 0..n} : Increasing(seq)}]
           : n \in 1..MaxBlocks}

IsMoe(m) == m.moe # <<>>
HasExperts(m, b) == \E i \in DOMAIN m.moe : m.moe[i] = b
NglAll(m) == m.blocks + 1

GpuBlocks(m, ngl) == {b \in 0..(m.blocks - 1) : b >= m.blocks - ngl + 1}

State(phase, ngl, expertsGpu, boundary) ==
    [phase |-> phase, ngl |-> ngl, expertsGpu |-> expertsGpu, boundary |-> boundary]
Null == State("null", 0, 0, "none")

-----------------------------------------------------------------------------
(* placementLadder, and the order of its states. *)

DensePhase(m, drop) ==
    {State("dense", n, 0, "none") : n \in 0..m.blocks} \cup
    {State("dense", n, 0, "ATTN") :
        n \in {k \in 1..m.blocks : HasExperts(m, m.blocks - k) /\ "ATTN" \notin drop}}

ExpertPhase(m, drop) ==
    {State("expert", NglAll(m), e, "none") : e \in 0..Len(m.moe)} \cup
    {State("expert", NglAll(m), e, b) : e \in 0..(Len(m.moe) - 1), b \in {"UP", "GATE"} \ drop}

PlacementLadder(m, drop) ==
    IF IsMoe(m) THEN DensePhase(m, drop) \cup ExpertPhase(m, drop)
    ELSE {State("dense", n, 0, "none") : n \in 0..NglAll(m)}

Under(s, t) ==
    LET boundaries == [none |-> 0, ATTN |-> 1, UP |-> 1, GATE |-> 2]
        key(x) == 3 * (x.ngl + x.expertsGpu) + boundaries[x.boundary]
    IN  key(s) < key(t)

-----------------------------------------------------------------------------
(* toArgs *)

Exps(m, blocks) ==
    {[block |-> m.moe[i], kind |-> "exps"] : i \in {j \in DOMAIN m.moe : m.moe[j] \in blocks}}

OffByOne(s, m) ==   \* slip: the block after the boundary's
    IF ~IsMoe(m) THEN [ngl |-> s.ngl, ot |-> {}]
    ELSE IF s.phase = "dense"
    THEN [ngl |-> IF s.boundary = "ATTN" THEN s.ngl + 1 ELSE s.ngl,
          ot |-> Exps(m, GpuBlocks(m, s.ngl))
                   \cup (IF s.boundary = "ATTN"
                         THEN {[block |-> m.blocks - s.ngl - 1, kind |-> "ATTN"]} ELSE {})]
    ELSE [ngl |-> s.ngl,
          ot |-> {[block |-> m.moe[i],
                   kind |-> IF i = s.expertsGpu + 1 /\ s.boundary # "none"
                            THEN s.boundary ELSE "exps"]
                  : i \in (s.expertsGpu + 1)..Len(m.moe)}]
ToArgs(s, m) ==
    IF ~IsMoe(m) THEN [ngl |-> s.ngl, ot |-> {}]
    ELSE IF s.phase = "dense"
    THEN [ngl |-> IF s.boundary = "ATTN" THEN s.ngl + 1 ELSE s.ngl,
          ot |-> Exps(m, GpuBlocks(m, s.ngl))
                   \cup (IF s.boundary = "ATTN"
                         THEN {[block |-> m.blocks - s.ngl, kind |-> "ATTN"]} ELSE {})]
    ELSE [ngl |-> s.ngl,
          ot |-> {[block |-> m.moe[i],
                   kind |-> IF i = s.expertsGpu + 1 /\ s.boundary # "none"
                            THEN s.boundary ELSE "exps"]
                  : i \in (s.expertsGpu + 1)..Len(m.moe)}]

(* fromFit: Null for a shape fit never emits. *)

FitNgl(args, m) == IF args.ngl < 0 \/ args.ngl > NglAll(m) THEN NglAll(m) ELSE args.ngl
Real(args, m) == {i \in DOMAIN m.moe : \E e \in args.ot : e.block = m.moe[i]}
First(args, m) == CHOOSE i \in Real(args, m) : \A j \in Real(args, m) : i <= j
FirstKind(args, m) == (CHOOSE e \in args.ot : e.block = m.moe[First(args, m)]).kind

FromFit(args, m) ==
    LET ngl == FitNgl(args, m)
        all == NglAll(m)
    IN  IF ~IsMoe(m) THEN State("dense", ngl, 0, "none")
        ELSE IF \E e \in args.ot : e.kind \notin {"exps", "ATTN", "UP", "GATE"} THEN Null
        ELSE IF ngl < all
        THEN IF \E e \in args.ot : e.kind = "ATTN"
             THEN State("dense", ngl - 1, 0, "ATTN") ELSE State("dense", ngl, 0, "none")
        ELSE IF Real(args, m) = {} THEN State("expert", all, Len(m.moe), "none")
        ELSE IF FirstKind(args, m) = "ATTN"
        THEN IF First(args, m) = 1 THEN State("dense", all - 1, 0, "ATTN") ELSE Null
        ELSE State("expert", all, First(args, m) - 1,
                   IF FirstKind(args, m) = "exps" THEN "none" ELSE FirstKind(args, m))

-----------------------------------------------------------------------------
(* What llama.cpp then keeps on the GPU.                                    *)

BlockTensors(m, b) ==
    {"attn"} \cup
    (IF ~HasExperts(m, b) THEN {"up", "gate", "down"}
     ELSE {"gate_inp", "up_shexp", "gate_shexp", "down_shexp", "down_exps"}
            \cup (IF m.fused THEN {"gate_up_exps"} ELSE {"up_exps", "gate_exps"}))

(* The tensors of its block an entry sends to the CPU. *)
OnCpu(kind) ==
    LET down == {"down", "down_shexp", "down_exps"}
        gate == {"gate", "gate_inp", "gate_shexp", "gate_exps", "gate_up_exps"}
        up   == {"up", "up_shexp", "up_exps"}
    IN  CASE kind = "exps" -> {"up_exps", "gate_exps", "gate_up_exps", "down_exps"}
          [] kind = "GATE" -> down
          [] kind = "UP"   -> down \cup gate
          [] kind = "ATTN" -> down \cup gate \cup up

Resident(args, m) ==
    (IF args.ngl > 0 THEN {<<m.blocks, "output">>} ELSE {}) \cup
    UNION {{<<b, t>> : t \in BlockTensors(m, b) \
                             UNION {OnCpu(e.kind) : e \in {x \in args.ot : x.block = b}}}
           : b \in GpuBlocks(m, args.ngl)}

Size(t) ==
    CASE t = "gate_up_exps" -> 2 * Routed
      [] t \in {"up_exps", "gate_exps", "down_exps"} -> Routed
      [] OTHER -> 1

Memory(s, m) == MapThenSumSet(LAMBDA r : Size(r[2]), Resident(ToArgs(s, m), m))

-----------------------------------------------------------------------------
(* What a rung is loaded as is what fit's answer of the same shape is taken *)
(* for: the search that fit seeds loads fit's own placement first, and a    *)
(* stored result names the placement that ran.                              *)
PlacementRoundTrips ==
    \A m \in Models, drop \in SUBSET {"ATTN", "UP", "GATE"} :
       \A s \in PlacementLadder(m, drop) : FromFit(ToArgs(s, m), m) = s

(* Every rung takes more memory than those below it, which is what lets the *)
(* search take a miss at one for a miss at all above: without UP where a    *)
(* fused tensor leaves it nothing to bring.                                 *)
Fractions(m) == IF m.fused THEN {"UP"} ELSE {}
LadderGrows ==
    \A m \in Models : \A s, t \in PlacementLadder(m, Fractions(m)) :
       Under(s, t) => Memory(s, m) < Memory(t, m)

(* The ladder the page builds, which drops nothing, grows just as well.     *)
(* Not so: on a fused model UP keeps the router and the shared experts of   *)
(* its block on the CPU and brings nothing for them.                        *)
UndroppedGrows ==
    \A m \in Models : \A s, t \in PlacementLadder(m, {}) :
       Under(s, t) => Memory(s, m) < Memory(t, m)
=============================================================================
