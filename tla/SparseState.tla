----------------------------- MODULE SparseState ----------------------------
(***************************************************************************)
(* The sparse vector of amplitudes of a QuantumState and the operations on *)
(* it.  A SparseArray is a record: "data" is the map from the basis        *)
(* vectors that have an entry to their amplitudes, "zero_counter" counts   *)
(* the gates since the null entries were last erased.  A basis vector      *)
(* without an entry has a null amplitude, but an entry may hold null too.  *)
(*                                                                         *)
(* A gate is the sum of what the entries add; the loop that computes it,   *)
(* in any order of the unordered map, is apply_in_order.  An operation     *)
(* whose result lies outside the ring of Amplitudes is not taken:          *)
(* "Representable" operators say when that is.                             *)
(***************************************************************************)
EXTENDS Gates, SequencesExt

CONSTANTS NumberOfQubits,   \* size of the qubit register
          ZERO_CYCLE_SIZE   \* gates between two clean-ups of null entries

ASSUME QubitsAssumption == NumberOfQubits \in Nat \ {0}
ASSUME CycleAssumption  == ZERO_CYCLE_SIZE \in Nat \ {0}

Qubit       == 0..(NumberOfQubits - 1)
BasisVector == [Qubit -> BOOLEAN]
GroundState == [q \in Qubit |-> FALSE]

\* Mutant: only the counter is reset.
only_reset_counter(array) == [data |-> array.data, zero_counter |-> 0]

clean_up_zeros(array) ==
  [data         |-> RestrictValues(array.data, LAMBDA z : z # Null),
   zero_counter |-> 0]

Amplitude(array, v) == IF v \in DOMAIN array.data THEN array.data[v] ELSE Null

norm(array) ==
  SumOf(NoWeight, [v \in DOMAIN array.data |-> Norm(array.data[v])])

\* clear() and the ground state's entry; zero_counter is left as it is.
reset_data(array) ==
  [data         |-> [v \in {GroundState} |-> Root2Power(Scale)],
   zero_counter |-> array.zero_counter]

-----------------------------------------------------------------------------
(* Applying a matrix to a list of operands.                                *)

\* Mutant: the first operand is the least significant bit.
ReversedIndex(v, operands) ==
  FoldLeft(LAMBDA index, q : 2 * index + (IF v[q] THEN 1 ELSE 0), 0, Reverse(operands))

\* The bits of a basis vector at the operands, the first one most significant.
ReducedIndex(v, operands) ==
  FoldLeft(LAMBDA index, q : 2 * index + (IF v[q] THEN 1 ELSE 0), 0, operands)

AgreeOutside(operands, v, w) ==
  \A q \in Qubit \ Range(operands) : v[q] = w[q]

\* The value that the entry of v adds to the amplitude of w.
AddedValue(data, m, operands, v, w) ==
  Times(data[v], at(m, ReducedIndex(w, operands), ReducedIndex(v, operands)))

\* Mutant: null values are added too.
SourcesWithNulls(data, m, operands, w) ==
  { v \in DOMAIN data : AgreeOutside(operands, v, w) }

\* The entries that add a value to w: null values are not added.
Sources(data, m, operands, w) ==
  { v \in DOMAIN data : /\ AgreeOutside(operands, v, w)
                        /\ AddedValue(data, m, operands, v, w) # Null }

Added(data, m, operands, w) ==
  SumOf(Null, [v \in Sources(data, m, operands, w) |->
                 AddedValue(data, m, operands, v, w)])

apply_impl(data, m, operands) ==
  [ w \in { u \in BasisVector : Sources(data, m, operands, u) # {} } |->
      Divide(Added(data, m, operands, w), m.halvings) ]

Position(operands, q) == CHOOSE k \in DOMAIN operands : operands[k] = q

\* Mutant: the first operand takes the lowest bit of the row.
RowFromLowestBit(v, operands, i) ==
  [q \in Qubit |-> IF q \notin Range(operands) THEN v[q]
                   ELSE (i \div 2^(Position(operands, q) - 1)) % 2 = 1]

\* new_index: the basis vector v with the bits of a row at the operands.
RowIndex(v, operands, i) ==
  [q \in Qubit |-> IF q \notin Range(operands) THEN v[q]
                   ELSE (i \div 2^(Len(operands) - Position(operands, q))) % 2 = 1]

\* try_emplace, and the addition to what is there.
Emplaced(storage, w, value) ==
  [u \in DOMAIN storage \union {w} |->
     Plus(IF u \in DOMAIN storage THEN storage[u] ELSE Null, IF u = w THEN value ELSE Null)]

\* What the loop over the rows does for one entry.
add_entry(storage, v, value, m, operands) ==
  LET Add(sums, i) ==
        LET added_value == Times(value, at(m, i, ReducedIndex(v, operands)))
        IN  IF added_value = Null THEN sums
            ELSE Emplaced(sums, RowIndex(v, operands, i), added_value)
  IN  FoldLeft(Add, storage, [i \in 1..SizeOf(m) |-> i - 1])

\* The loop over the entries, in the order in which the map has them.
apply_in_order(data, m, operands, order) ==
  LET sums == FoldLeft(LAMBDA storage, v : add_entry(storage, v, data[v], m, operands),
                       <<>>, order)
  IN  [w \in DOMAIN sums |-> Divide(sums[w], m.halvings)]

\* Mutant: the clean-up comes one gate late.
CleanedLate(array) ==
  IF array.zero_counter > ZERO_CYCLE_SIZE THEN clean_up_zeros(array) ELSE array

\* Every ZERO_CYCLE_SIZE gates the null entries are erased first.
Cleaned(array) ==
  IF array.zero_counter >= ZERO_CYCLE_SIZE THEN clean_up_zeros(array) ELSE array

apply_linear(array, m, operands) ==
  [data         |-> apply_impl(Cleaned(array).data, m, operands),
   zero_counter |-> Cleaned(array).zero_counter + 1]

RepresentableApply(array, m, operands) ==
  \A w \in BasisVector : Divisible(Added(array.data, m, operands, w), m.halvings)

-----------------------------------------------------------------------------
(* Measuring a qubit.                                                      *)

\* Mutant: sums the entries where the qubit is clear.
probability_of_measuring_zero(array, q) ==
  SumOf(NoWeight, [v \in {u \in DOMAIN array.data : ~u[q]} |-> Norm(array.data[v])])

probability_of_measuring_one(array, q) ==
  SumOf(NoWeight, [v \in {u \in DOMAIN array.data : u[q]} |-> Norm(array.data[v])])

Complement(s) == <<Unity[1] - s[1], Unity[2] - s[2]>>

\* Mutant: erases the entries that agree with the outcome.
erase_if_agrees(data, q, measured) == RestrictDomain(data, LAMBDA v : v[q] # measured)

\* The entries that survive; with p_one the probability of measuring a one.
erase_if(data, q, measured) == RestrictDomain(data, LAMBDA v : v[q] = measured)

OutcomeWeight(measured, p_one) ==
  IF measured THEN p_one ELSE Complement(p_one)

\* Mutant: the entries that survive keep their amplitudes.
update_without_normalizing(array, q, measured, p_one) ==
  [data |-> erase_if(array.data, q, measured), zero_counter |-> array.zero_counter]

update_data_after_measurement(array, q, measured, p_one) ==
  LET kept == erase_if(array.data, q, measured)
  IN  [data         |-> [v \in DOMAIN kept |->
                           Normalize(kept[v], OutcomeWeight(measured, p_one))],
       zero_counter |-> array.zero_counter]

RepresentableMeasurement(array, q, measured, p_one) ==
  \/ DOMAIN erase_if(array.data, q, measured) = {}
  \/ OutcomeWeight(measured, p_one) \in Weights

-----------------------------------------------------------------------------
(* Resetting a qubit: every non-null entry with the qubit set is merged    *)
(* into the one with the qubit clear, as the square root of the sum of the *)
(* squared magnitudes, and stays in the map as a null entry.  The map that *)
(* is returned is a copy taken before the clean-up.                        *)

Clear(v, q) == [v EXCEPT ![q] = FALSE]

Moved(array, q) == {v \in DOMAIN clean_up_zeros(array).data : v[q]}

\* Mutant: the amplitude that was there is overwritten.
OverwrittenNorm(array, v, q) == Norm(array.data[v])

MergedNorm(array, v, q) ==
  Plus(Norm(Amplitude(array, Clear(v, q))), Norm(array.data[v]))

update_data_after_reset(array, q) ==
  LET moved   == Moved(array, q)
      targets == {Clear(v, q) : v \in moved}
  IN  [data         |-> [ w \in DOMAIN array.data \union targets |->
                            IF w \in moved THEN Null
                            ELSE IF w \in targets
                            THEN Root(MergedNorm(array, [w EXCEPT ![q] = TRUE], q))
                            ELSE array.data[w] ],
       zero_counter |-> array.zero_counter]

RepresentableReset(array, q) ==
  \A v \in Moved(array, q) : HasRoot(MergedNorm(array, v, q))

=============================================================================
