------------------------------- MODULE CPUMask -------------------------------
(***************************************************************************)
(* The CPU masks of pkg/controller/performanceprofile/components/utils.go. *)
(* A mask is a sequence of hexadecimal digits, the most significant first; *)
(* a digit is the set of its bits.  A mask list is a sequence of chunks of *)
(* eight digits, the most significant first.  A parsed CPU list is the set *)
(* of its CPUs.                                                            *)
(***************************************************************************)
EXTENDS Naturals, Sequences, FiniteSetsExt

DigitBits   == 4
ChunkDigits == 8
PadDigits   == 64    \* of "%064x"
BitsInWord  == 32

\* How many digits "%064x" prints.
Digits(cpus) ==
    IF cpus = {} THEN PadDigits ELSE Max({PadDigits, Max(cpus) \div DigitBits + 1})

CPUListToHexMask(cpus) ==
    LET len == Digits(cpus) IN
    [p \in 1..len |-> {b \in 0..DigitBits - 1 : (len - p) * DigitBits + b \in cpus}]

\* Indices into the mask, counted from 0 in steps of a chunk.
Indices(mask) == {ChunkDigits * i : i \in 0..Len(mask) \div ChunkDigits}

Chunk(mask, index) == SubSeq(mask, index + 1, index + ChunkDigits)

\* The leading chunks of zeros are left out, all but the last.
FirstIndex(mask) ==
    Min({i \in Indices(mask) :
            \/ i + ChunkDigits >= Len(mask)
            \/ \E d \in 1..ChunkDigits : Chunk(mask, i)[d] # {}})

\* Where the loop over the chunks ends.
LastIndex(mask) == Min({i \in Indices(mask) : i >= FirstIndex(mask)
                                              /\ i + 2 * ChunkDigits > Len(mask)})

\* Mutant: the chunk that follows the loop is not written.
CPUListToMaskListShort(cpus) ==
    LET mask == CPUListToHexMask(cpus)
        n    == (LastIndex(mask) - FirstIndex(mask)) \div ChunkDigits
    IN [c \in 1..n |-> Chunk(mask, FirstIndex(mask) + (c - 1) * ChunkDigits)]

CPUListToMaskList(cpus) ==
    LET mask == CPUListToHexMask(cpus)
        n    == (LastIndex(mask) - FirstIndex(mask)) \div ChunkDigits + 1
    IN [c \in 1..n |-> Chunk(mask, FirstIndex(mask) + (c - 1) * ChunkDigits)]

\* The chunks in reverse order, each from its least significant bit.
CPUMaskToCPUSet(chunks) ==
    {(Len(chunks) - x[1]) * BitsInWord + (ChunkDigits - x[2]) * DigitBits + x[3] :
        x \in {y \in (1..Len(chunks)) \X (1..ChunkDigits) \X (0..DigitBits - 1) :
                  y[3] \in chunks[y[1]][y[2]]}}
=============================================================================
