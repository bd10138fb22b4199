----------------------------- MODULE PoolLayout -----------------------------
(***************************************************************************)
(* The arithmetic of proxypool.Pool: how a file is cut into blocks and     *)
(* regions, how regions and lines are permuted, which regions belong to a  *)
(* shard.  Everything here is a pure operator; the state machines of the   *)
(* project are built from them.                                            *)
(*                                                                         *)
(* Go's uint64 arithmetic wraps.  WordSize stands for 2^64.                *)
(***************************************************************************)
EXTENDS Integers

CONSTANTS
    WordSize,            \* 2^64 in the code
    Mix(_, _),           \* Mix(a, b) stands for mix64(a ^ b): any hash of two words
    MixIncrement,        \* mixIncrement
    DefaultRegionBytes   \* 1 GiB in the code

Words == 0 .. WordSize - 1

ASSUME WordAssumption == WordSize \in Nat \ {0, 1}

ASSUME MixAssumption ==
    /\ MixIncrement \in Words
    /\ \A a, b \in Words : Mix(a, b) \in Words

ASSUME RegionAssumption == DefaultRegionBytes \in Nat \ {0}

Word(value) == value % WordSize

Lesser(a, b) == IF a <= b THEN a ELSE b
Greater(a, b) == IF a >= b THEN a ELSE b

-----------------------------------------------------------------------------
(* Modular arithmetic. *)

\* Mutant: the sum is formed in a word, where it may wrap.
AddModuloWraps(left, right, modulus) ==
    IF modulus <= 1 THEN 0 ELSE Word(left + right) % modulus

\* left + right modulo modulus, for left < modulus and right <= modulus,
\* without ever forming a sum above modulus.
AddModulo(left, right, modulus) ==
    IF modulus <= 1
    THEN 0
    ELSE IF left >= Word(modulus - right)
         THEN Word(left - Word(modulus - right))
         ELSE Word(left + right)

\* Russian-peasant multiplication, by the loop's variables; right is halved
\* until it is 0.
MultiplyModulo(left, right, modulus) ==
    LET Remainders == 0 .. modulus - 1
        Multiply[v \in [product : Remainders, left : Remainders, right : Nat]] ==
            IF v.right = 0
            THEN v.product
            ELSE Multiply[
                   [product |-> IF v.right % 2 = 1 THEN AddModulo(v.product, v.left, modulus)
                                ELSE v.product,
                    left |-> IF v.right \div 2 # 0 THEN AddModulo(v.left, v.left, modulus)
                             ELSE v.left,
                    right |-> v.right \div 2]]
    IN  IF modulus <= 1 THEN 0
        ELSE Multiply[[product |-> 0, left |-> left % modulus, right |-> right]]

\* What MultiplyModulo returns, for operands whose product no word could hold.
ProductModulo(left, right, modulus) ==
    IF modulus <= 1 THEN 0 ELSE (left * right) % modulus

\* Euclid's algorithm.
GreatestCommonDivisor(left, right) ==
    LET Euclid[v \in [left : Nat, right : Nat]] ==
            IF v.right = 0 THEN v.left
            ELSE Euclid[[left |-> v.right, right |-> v.left % v.right]]
    IN  Euclid[[left |-> left, right |-> right]]

\* What "greatestCommonDivisor(a, b) == 1" tells.
Coprime(a, b) == \A d \in 2 .. b : ~ (a % d = 0 /\ b % d = 0)

\* value / divisor rounded up.
CeilingQuotient(value, divisor) ==
    IF value = 0 THEN 0 ELSE ((value - 1) \div divisor) + 1

\* Mutant: the share is rounded down for every shard.
ShareRoundedDown(total, shards, shard) == total \div shards

\* How many of total items, dealt round-robin to shards, go to this shard.
ShardItemCount(total, shards, shard) ==
    IF shard >= total THEN 0 ELSE ((total - 1 - shard) \div shards) + 1

-----------------------------------------------------------------------------
(* Permutations: position k of the permutation of 0 .. count-1 is          *)
(* (first + k * step) % count, with step coprime to count.                 *)

\* The d-th step tried: they start anywhere in 1 .. count-1 and wrap.
TriedStep(seed, count, d) == (((Mix(seed, 0) % (count - 1)) + d) % (count - 1)) + 1

IsPermutationStep(seed, count, step) ==
    \E d \in 0 .. count - 2 :
        /\ step = TriedStep(seed, count, d)
        /\ Coprime(step, count)
        /\ \A e \in 0 .. d - 1 : ~ Coprime(TriedStep(seed, count, e), count)

PermutationStep(count, seed) ==
    IF count <= 1
    THEN 0
    ELSE CHOOSE step \in 1 .. count - 1 : IsPermutationStep(seed, count, step)

PermutationFirst(count, seed) ==
    IF count <= 1 THEN 0 ELSE Mix(seed, MixIncrement) % count

-----------------------------------------------------------------------------
(* An opened pool: what Open accepts, and the layout it derives.           *)

\* The fields of a pool Open has returned.  It refuses a region smaller than
\* a block, a shard outside [0, shardCount), and sharding with reuse or in
\* sequential mode; a shuffled pool draws a nonzero seed when none is given.
ValidOptions ==
    { o \in [mode : {"ModeSequential", "ModeShuffled"}, reuse : BOOLEAN,
             seed : Words, fileSize : Words,
             blockBytes : Words \ {0}, regionBytes : Words \ {0},
             maxLineBytes : Words \ {0},
             shardCount : Words \ {0}, shardIndex : Words] :
        /\ o.blockBytes <= o.regionBytes
        /\ o.shardIndex < o.shardCount
        /\ o.mode = "ModeSequential" <=> o.seed = 0
        /\ o.mode = "ModeSequential" =>
               /\ o.shardCount = 1
               /\ o.regionBytes = Greater(DefaultRegionBytes, o.blockBytes)
        /\ o.reuse => o.shardCount = 1 }

BlocksPerRegion(o) == o.regionBytes \div o.blockBytes

BlockCount(o) == CeilingQuotient(o.fileSize, o.blockBytes)

RegionCount(o) == CeilingQuotient(BlockCount(o), BlocksPerRegion(o))

RegionsForShard(o) == ShardItemCount(RegionCount(o), o.shardCount, o.shardIndex)

\* How many regions are walked between two checks of the source's metadata.
RegionsPerCheck(o) ==
    Greater(1, DefaultRegionBytes \div (BlocksPerRegion(o) * o.blockBytes))

CycleSeed(o, cycle) == Mix(Word(o.seed + cycle * MixIncrement), 0)

\* regionStep, nextRegion and regionAdvance as a new cycle computes them.
RegionStep(o, cycle) ==
    CASE RegionCount(o) = 0         -> 0
      [] RegionCount(o) # 0 /\ o.mode = "ModeSequential" -> 1
      [] OTHER -> PermutationStep(RegionCount(o), CycleSeed(o, cycle))

FirstRegion(o, cycle) ==
    IF RegionCount(o) = 0 \/ o.mode = "ModeSequential"
    THEN 0
    ELSE AddModulo(PermutationFirst(RegionCount(o), CycleSeed(o, cycle)),
                   ProductModulo(RegionStep(o, cycle), o.shardIndex, RegionCount(o)),
                   RegionCount(o))

\* Mutant: a shard advances by one permuted position, into the next shard's.
AdvanceWithinPermutation(o, cycle) ==
    IF RegionCount(o) = 0 THEN 0 ELSE RegionStep(o, cycle)

RegionAdvance(o, cycle) ==
    CASE RegionCount(o) = 0         -> 0
      [] RegionCount(o) # 0 /\ o.mode = "ModeSequential" -> 1
      [] OTHER -> ProductModulo(RegionStep(o, cycle), o.shardCount, RegionCount(o))

\* The blocks of a region, and where in it the walk of a cycle begins.
RegionBase(o, region) == region * BlocksPerRegion(o)

RegionLength(o, region) ==
    Lesser(BlocksPerRegion(o), BlockCount(o) - RegionBase(o, region))

Rotation(o, cycle, region) ==
    IF o.mode = "ModeSequential"
    THEN 0
    ELSE Mix(CycleSeed(o, cycle), region) % RegionLength(o, region)

-----------------------------------------------------------------------------
(* What a cycle should visit, from the definitions of a permutation and of *)
(* a round-robin deal: the reference for the walk.                         *)

\* The k-th region of this pool's shard in cycle c, from the definition of a
\* round-robin deal of the permuted regions.
ShardRegion(o, c, k) ==
    IF RegionCount(o) <= 1 \/ o.mode = "ModeSequential"
    THEN k
    ELSE (PermutationFirst(RegionCount(o), CycleSeed(o, c))
            + RegionStep(o, c) * (o.shardIndex + o.shardCount * k)) % RegionCount(o)

RegionBlocksOf(o, r) == RegionBase(o, r) .. RegionBase(o, r) + RegionLength(o, r) - 1

\* The blocks of the first so many regions of the walk.
FirstBlocks(o, c, regions) ==
    UNION { RegionBlocksOf(o, ShardRegion(o, c, k)) : k \in 0 .. regions - 1 }

ShardBlocks(o, c) == FirstBlocks(o, c, RegionsForShard(o))
=============================================================================
