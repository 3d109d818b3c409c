------------------------------ MODULE KeyValueMap ------------------------------
(* What ds::HashMap promises to its clients (the page and inode caches, the pin *)
(* tables, the mount points of a directory): a partial function from keys to    *)
(* values. No slot, hash or load factor is visible here.                        *)
CONSTANTS Keys, Values, NullOpt

VARIABLES
  content,   \* [Keys -> Values or NullOpt]
  ret        \* what the last call returned

Has(k) == content[k] # NullOpt

Init == /\ content = [k \in Keys |-> NullOpt]
        /\ ret = NullOpt

\* Refuses a key that is there.
Insert(k, v) ==
  /\ ret' = ~Has(k)
  /\ content' = IF Has(k) THEN content ELSE [content EXCEPT ![k] = v]

Lookup(k) == ret' = content[k] /\ UNCHANGED content

Contains(k) == ret' = Has(k) /\ UNCHANGED content

\* Assignment through the reference operator[] returns.
Assign(k, v) ==
  /\ Has(k)
  /\ ret' = v
  /\ content' = [content EXCEPT ![k] = v]

Delete(k) ==
  /\ ret' = Has(k)
  /\ content' = [content EXCEPT ![k] = NullOpt]

Next == \E k \in Keys : \/ Lookup(k) \/ Contains(k) \/ Delete(k)
                        \/ \E v \in Values : Insert(k, v) \/ Assign(k, v)

Spec == Init /\ [][Next]_<<content, ret>>

================================================================================
