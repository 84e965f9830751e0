---------------------------- MODULE LedgerPosting ----------------------------
(***************************************************************************)
(* LedgerPostingService.postWithin                                         *)
(* (src/backend-nest/src/common/wms/ledger-posting.service.ts): a document *)
(* books an entry inside its own transaction, at most one per source       *)
(* reference, and none while an account is not mapped.  A document's       *)
(* entries are a function from its source references to the signed value.  *)
(***************************************************************************)
EXTENDS Integers, FiniteSetsExt

NoEntries == [ref \in {} |-> 0]

\* What is booked when it is asked for and the roles have accounts.
Booked(entries, ref, value) ==
  IF value = 0 \/ ref \in DOMAIN entries THEN entries
  ELSE [r \in DOMAIN entries \cup {ref} |-> IF r = ref THEN value ELSE entries[r]]

Balance(entries) == MapThenSumSet(LAMBDA r : entries[r], DOMAIN entries)
=============================================================================
