--------------------------- MODULE VersionedData ---------------------------
(***************************************************************************)
(* One key of the multi-version map of aptos-move/mvhashmap: an entry per   *)
(* transaction that has written the key or added to it, and what a          *)
(* transaction reads from the entries below its own.  A value is a number   *)
(* and a delta is added to it.  Deletions, which a read under deltas        *)
(* resolves to, and the limits of an aggregator, at which the application   *)
(* of a delta fails, are left out.                                          *)
(***************************************************************************)
EXTENDS Integers, FiniteSets, FiniteSetsExt

\* An entry is none, a write with its incarnation, or a delta, which has a shortcut once
\* it is materialized (-1 if not).  The flag says that the entry is an estimate.
NoEntry == [cell |-> "None", inc |-> -1, val |-> 0, shortcut |-> -1, estimate |-> FALSE]
Write(inc, val) == [NoEntry EXCEPT !.cell = "Write", !.inc = inc, !.val = val]
Delta(d) == [NoEntry EXCEPT !.cell = "Delta", !.val = d]

\* What a read returns.  The version is there when it is a write's, or a dependency's.
Found(kind, idx, inc, val) == [kind |-> kind, idx |-> idx, inc |-> inc, val |-> val]
NotFound == Found("NotFound", -1, -1, 0)
Unresolved == Found("Unresolved", -1, -1, 0)
Resolved(val) == Found("Resolved", -1, -1, val)

\* VersionedValue.read: from the highest entry below t down to an estimate, a write or a
\* delta with a shortcut, adding up the deltas on the way.  A read that gets to the bottom
\* with deltas needs the aggregator's base value, which base is (-1 if not set).
ReadEntries(entries, base, t) ==
  LET below == {j \in 0..t - 1 : entries[j] # NoEntry}
      stops == {j \in below : \/ entries[j].estimate
                              \/ entries[j].cell = "Write"
                              \/ entries[j].shortcut # -1}
      j == IF stops = {} THEN -1 ELSE Max(stops)
      deltas == {i \in below : i > j}
      sum == MapThenSumSet(LAMBDA i : entries[i].val, deltas)
  IN  IF stops = {}
      THEN IF deltas = {} THEN NotFound
           ELSE IF base = -1 THEN Unresolved
           ELSE Resolved(base + sum)
      ELSE IF entries[j].estimate THEN Found("Dependency", j, -1, 0)
      ELSE IF entries[j].cell = "Delta" THEN Resolved(entries[j].shortcut + sum)
      ELSE IF deltas = {} THEN Found("Versioned", j, entries[j].inc, entries[j].val)
      ELSE Resolved(entries[j].val + sum)
=============================================================================
