----------------------------- MODULE DNSRecords -----------------------------
(***************************************************************************)
(* What the records cache of the dns-server promises, without its indexes: *)
(* at most one record per resource key, each a canonical name with the     *)
(* addresses published for it.  DNSCache.tla is shown to implement this.   *)
(***************************************************************************)
CONSTANTS ResourceKeys, RecordNames, Records

VARIABLE records    \* a function from the published resource keys to Records

(* No record is published before the first Upsert. *)
RecordsInit == records = [k \in {} |-> {}]

(* One record appears or is replaced; every other record stays. *)
Publish(k, r) ==
    records' = [x \in DOMAIN records \cup {k} |->
                    IF x = k THEN r ELSE records[x]]

(* One record disappears; every other record stays. *)
Withdraw(k) ==
    records' = [x \in DOMAIN records \ {k} |-> records[x]]

(* Exactly the records of one name disappear. *)
WithdrawName(n) ==
    records' = [x \in {y \in DOMAIN records : records[y].name # n} |-> records[x]]

RecordsNext ==
    \/ \E k \in ResourceKeys, r \in Records : Publish(k, r)
    \/ \E k \in ResourceKeys : Withdraw(k)
    \/ \E n \in RecordNames : WithdrawName(n)

RecordsSpec == RecordsInit /\ [][RecordsNext]_records
=============================================================================
