------------------------------ MODULE TCA6424A ------------------------------
(***************************************************************************)
(* The I/O expander driver (drivers/TCA6424A.{h,cpp}) and the expander     *)
(* behind it: one register of outputs and one of directions per group of   *)
(* lines.  The driver keeps a copy of both and always writes whole groups; *)
(* the result of a write on the I2C bus is not looked at.                  *)
(***************************************************************************)
EXTENDS Naturals

CONSTANTS
  Groups,   \* groups of lines: three in the chip
  Lanes     \* lines in a group: eight

ASSUME ExpanderAssumption == Groups \in Nat \ {0}

Group == 0 .. Groups - 1
Lines == Group \X Lanes

VARIABLES
  outvals, dirmask,   \* m_outvals, m_dirmask: TRUE is high, or an input
  outputs, inputs,    \* the chip's registers
  block,              \* group BatchCommitValue() comes to; Groups: it does not run
  asked,              \* the value last asked for, of every line
  unsure,             \* lines whose last write was lost, or waits for a commit
  astray              \* lines whose last change of direction was lost

expanderVars == <<outvals, dirmask, outputs, inputs, block, asked, unsure, astray>>

High == [l \in Lines |-> TRUE]

(* The constructor, and a chip that was powered up with the processor.     *)
ExpanderInit ==
  /\ outvals = High /\ dirmask = High /\ outputs = High /\ inputs = High
  /\ block = Groups /\ asked = High /\ unsure = {} /\ astray = {}

Of(g) == {l \in Lines : l[1] = g}

\* Variant: only the one line is written, the others as they were at power-up.
Write_OneLine(register, copy, g, l, ok) ==
  [k \in Lines |-> IF k \in Of(g) /\ ok THEN (k = l => copy[k]) ELSE register[k]]
(* BlockingWrite() of a group of the copy to the chip.                     *)
Write(register, copy, g, l, ok) ==
  [k \in Lines |-> IF k \in Of(g) /\ ok THEN copy[k] ELSE register[k]]

SetDirection(l, input) ==
  /\ block = Groups
  /\ dirmask' = [dirmask EXCEPT ![l] = input]
  /\ \E ok \in BOOLEAN :
       /\ inputs' = Write(inputs, dirmask', l[1], l, ok)
       /\ astray' = IF ok THEN astray \ Of(l[1]) ELSE astray \cup {l}
  /\ UNCHANGED <<outvals, outputs, block, asked, unsure>>

(* Sends the whole group, what BatchUpdateValue() left in it included.     *)
SetOutputValue(l, value) ==
  /\ block = Groups
  /\ outvals' = [outvals EXCEPT ![l] = value]
  /\ asked' = [asked EXCEPT ![l] = value]
  /\ \E ok \in BOOLEAN :
       /\ outputs' = Write(outputs, outvals', l[1], l, ok)
       /\ unsure' = IF ok THEN unsure \ Of(l[1]) ELSE unsure \cup {l}
  /\ UNCHANGED <<dirmask, inputs, block, astray>>

BatchUpdateValue(g, values) ==
  /\ block = Groups
  /\ outvals' = [l \in Lines |-> IF l \in Of(g) THEN values[l[2]] ELSE outvals[l]]
  /\ asked' = outvals'
  /\ unsure' = unsure \cup Of(g)
  /\ UNCHANGED <<dirmask, outputs, inputs, block, astray>>

StartBatchCommit ==
  /\ block = Groups /\ block' = 0
  /\ UNCHANGED <<outvals, dirmask, outputs, inputs, asked, unsure, astray>>

BatchCommitBlock ==
  /\ block < Groups /\ block' = block + 1
  /\ \E ok \in BOOLEAN :
       /\ outputs' = Write(outputs, outvals, block, <<block, 0>>, ok)
       /\ unsure' = IF ok THEN unsure \ Of(block) ELSE unsure
  /\ UNCHANGED <<outvals, dirmask, inputs, asked, astray>>

(* The two registers have nothing to do with each other.                   *)
DirectionNext == \E l \in Lines, input \in BOOLEAN : SetDirection(l, input)
ValueNext ==
  \/ \E l \in Lines, value \in BOOLEAN : SetOutputValue(l, value)
  \/ \E g \in Group, values \in [Lanes -> BOOLEAN] : BatchUpdateValue(g, values)
  \/ StartBatchCommit \/ BatchCommitBlock
ExpanderNext == DirectionNext \/ ValueNext

ExpanderSpec == ExpanderInit /\ [][ExpanderNext]_expanderVars

(* Every line has the value and the direction last asked for, except where *)
(* a write was lost and no later one has reached its group, or a batch is  *)
(* not committed: calls for other lines, singly or in a batch, never       *)
(* disturb it.                                                             *)
LinesAsAsked ==
  \A l \in Lines : /\ outputs[l] = asked[l] \/ l \in unsure
                   /\ inputs[l] = dirmask[l] \/ l \in astray

=============================================================================
