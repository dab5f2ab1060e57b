------------------------------ MODULE LockWord ------------------------------
(***************************************************************************)
(* The uint32_t lockValue of CountingSpinlock (spin_lock.h) and the        *)
(* Util::Atomic*U32 operations every discipline of the lock applies to it. *)
(* The word is held as its two 16-bit halves because TLC's integers are    *)
(* narrower than 32 bits: hi counts writers (units of                      *)
(* c_multiReaderWriter_WriteIncrement = 0x10000), lo counts readers.       *)
(***************************************************************************)
EXTENDS Integers

Half == 65536
Word == [hi : 0..(Half - 1), lo : 0..(Half - 1)]
Zero == [hi |-> 0, lo |-> 0]
OneWriter == [hi |-> 1, lo |-> 0]     \* the value c_multiReaderWriter_WriteIncrement

\* Util::AtomicAddU32 / AtomicSubtractU32 / AtomicIncrementU32 /
\* AtomicDecrementU32 on the word, with the carry or borrow between the
\* halves and wrap-around at 2^32; they return the new value.
AddWord(x, dHi, dLo) ==
    LET lo == x.lo + dLo
        carry == IF lo >= Half THEN 1 ELSE IF lo < 0 THEN -1 ELSE 0
    IN  [hi |-> (x.hi + dHi + carry) % Half, lo |-> lo % Half]
Inc(x) == AddWord(x, 0, 1)
Dec(x) == AddWord(x, 0, -1)
AddWriter(x) == AddWord(x, 1, 0)
SubWriter(x) == AddWord(x, -1, 0)
WriterPart(x) == x.hi        \* x & c_multiReaderWriter_WriteMask, shifted
ReaderPart(x) == x.lo        \* x & c_multiReaderWriter_ReadMask
=============================================================================
