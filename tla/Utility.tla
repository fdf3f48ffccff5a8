------------------------------- MODULE Utility -------------------------------
(***************************************************************************)
(* The algorithms of utility.h that the program calls: upper_bound, which  *)
(* finds a position by setting its bits from the highest to the lowest,    *)
(* and sort, a merge sort of its own.  Sequences count from 1 where the    *)
(* iterators count from first.                                             *)
(***************************************************************************)
EXTENDS Integers, Sequences

(* The bits a count of at most 31 bits can have.                           *)
Powers ==
  {1, 2, 4, 8, 16, 32, 64, 128, 256, 512, 1024, 2048, 4096, 8192, 16384, 32768,
   65536, 131072, 262144, 524288, 1048576, 2097152, 4194304, 8388608, 16777216,
   33554432, 67108864, 134217728, 268435456, 536870912, 1073741824}

(* std::bit_floor of a positive number.                                    *)
BitFloor(n) == CHOOSE b \in Powers : b <= n /\ n < 2 * b

(* Mutant: lower_bound's comparison, an equal element is gone past.        *)
ProbeLower(s, value, mid, b) ==
  IF mid + b < Len(s) + 1 /\ s[mid + b] < value THEN mid + b ELSE mid

(* One turn of the loop: bit b is set in mid if the element at the new     *)
(* position exists and is not greater than the value.                      *)
Probe(s, value, mid, b) ==
  IF mid + b < Len(s) + 1 /\ ~(value < s[mid + b]) THEN mid + b ELSE mid

(* The first element that is greater, or one past the end.                 *)
UpperBound(s, value) ==
  LET highest == BitFloor(Len(s) + 1)
      mid[b \in {p \in Powers : p <= highest}] ==
        Probe(s, value, IF b = highest THEN 0 ELSE mid[2 * b], b)
  IN  mid[1] + 1

-----------------------------------------------------------------------------
(* An element of the second part goes before one of the first only if it   *)
(* is less, a pair of the relation comp: rest[<<i, j>>] is what the loops  *)
(* still write from there on.                                              *)
Merge(p, q, comp) ==
  LET rest[at \in (1 .. Len(p) + 1) \X (1 .. Len(q) + 1)] ==
        LET i == at[1]
            j == at[2]
        IN  IF i > Len(p) THEN SubSeq(q, j, Len(q))
            ELSE IF j <= Len(q) /\ <<q[j], p[i]>> \in comp THEN <<q[j]>> \o rest[<<i, j + 1>>]
            ELSE <<p[i]>> \o rest[<<i + 1, j>>]
  IN  rest[<<1, 1>>]

(* The elements after the first l, up to and with the r-th, sorted.        *)
Sort(s, comp) ==
  LET part[span \in (0 .. Len(s)) \X (0 .. Len(s))] ==
        LET l == span[1]
            r == span[2]
            mid == l + (r - l) \div 2
        IN  IF r - l <= 1 THEN SubSeq(s, l + 1, r)
            ELSE Merge(part[<<l, mid>>], part[<<mid, r>>], comp)
  IN  part[<<0, Len(s)>>]

=============================================================================
