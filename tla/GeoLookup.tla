------------------------------ MODULE GeoLookup ------------------------------
(***************************************************************************)
(* XdbReader::lookup (geoip.rs): the binary search for the record of a     *)
(* region that covers an address.  The file holds, for each pair of first  *)
(* octets, a block of records in ascending order; `end` is one past the    *)
(* last, and the search starts with the record at `end` in its range,      *)
(* which belongs to the next block or lies past the end of the file.       *)
(***************************************************************************)
EXTENDS Naturals, Sequences

CONSTANTS MaxAddress, \* addresses are 0..MaxAddress
          MaxRecords  \* bound on records of the file

ASSUME GeoLookupAssumption == MaxAddress \in Nat /\ MaxRecords \in Nat \ {0}

VARIABLES xdb,    \* the records of the file, [lo, hi]
          block,  \* the block of the address: index of the first, number of records
          ip, left, right,
          found,  \* the index of the record in the file, 0 for none
          ended

gvars == <<xdb, block, ip, left, right, found, ended>>

Segment == {s \in [lo : 0..MaxAddress, hi : 0..MaxAddress] : s.lo <= s.hi}

(* Ascending and disjoint records. *)
Ascending(f) == \A i \in DOMAIN f : i + 1 \in DOMAIN f => f[i].hi < f[i + 1].lo

(* The last record that the search may look at, from 0. *)
LastMid == block.n

GeoInit ==
    /\ xdb \in {f \in UNION {[1..n -> Segment] : n \in 1..MaxRecords} : Ascending(f)}
    /\ block \in {b \in [first : DOMAIN xdb, n : 0..Len(xdb)] : b.first + b.n - 1 <= Len(xdb)}
    /\ ip \in 0..MaxAddress
    /\ left = 0 /\ right = LastMid /\ found = 0 /\ ended = FALSE

Mid == (left + right) \div 2
At(mid) == block.first + mid

(* left > right: no record covers the address. *)
SearchEnds ==
    /\ ~ended /\ left > right
    /\ ended' = TRUE
    /\ UNCHANGED <<xdb, block, ip, left, right, found>>

(* The record lies outside the file: an error, which the caller takes for  *)
(* an unknown location.                                                    *)
OutsideFile ==
    /\ ~ended /\ left <= right /\ At(Mid) > Len(xdb)
    /\ ended' = TRUE
    /\ UNCHANGED <<xdb, block, ip, left, right, found>>

\* Mutant: the lower half loses its last record.
GoLowerTooFar ==
    /\ ~ended /\ left <= right /\ At(Mid) <= Len(xdb)
    /\ ip < xdb[At(Mid)].lo
    /\ IF Mid <= 1 THEN ended' = TRUE /\ UNCHANGED right
                   ELSE right' = Mid - 2 /\ UNCHANGED ended
    /\ UNCHANGED <<xdb, block, ip, left, found>>

(* mid - 1, and nothing below the first. *)
GoLower ==
    /\ ~ended /\ left <= right /\ At(Mid) <= Len(xdb)
    /\ ip < xdb[At(Mid)].lo
    /\ IF Mid = 0 THEN ended' = TRUE /\ UNCHANGED right
                  ELSE right' = Mid - 1 /\ UNCHANGED ended
    /\ UNCHANGED <<xdb, block, ip, left, found>>

GoUpper ==
    /\ ~ended /\ left <= right /\ At(Mid) <= Len(xdb)
    /\ ip > xdb[At(Mid)].hi
    /\ left' = Mid + 1
    /\ UNCHANGED <<xdb, block, ip, right, found, ended>>

Hit ==
    /\ ~ended /\ left <= right /\ At(Mid) <= Len(xdb)
    /\ xdb[At(Mid)].lo <= ip /\ ip <= xdb[At(Mid)].hi
    /\ found' = At(Mid) /\ ended' = TRUE
    /\ UNCHANGED <<xdb, block, ip, left, right>>

GeoNext == SearchEnds \/ OutsideFile \/ GoLower \/ GoUpper \/ Hit

-----------------------------------------------------------------------------
(* The search ends with the record of the block that covers the address if *)
(* there is one, although its range starts one record too long; a record   *)
(* after the block is only ever taken if it covers the address itself.     *)
LookupFinds ==
    LET here == {i \in block.first..(block.first + block.n - 1) : xdb[i].lo <= ip /\ ip <= xdb[i].hi}
    IN  /\ found # 0 => xdb[found].lo <= ip /\ ip <= xdb[found].hi
        /\ (ended /\ found = 0) => here = {}
=============================================================================
