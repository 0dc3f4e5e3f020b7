------------------------------- MODULE AaPoolMC -------------------------------
(***************************************************************************)
(* Symmetry for the run of AaPool.  Threads are interchangeable; addresses *)
(* and buckets are too, but too many to permute.  View instead has the     *)
(* places of the lists, stacks and calls at which each of them is: states  *)
(* with the same view differ by permutations of both, and in fields that   *)
(* no operation reads before it has written them.                          *)
(***************************************************************************)
EXTENDS AaPool

Symmetry == Permutations(Thread)

places(lists, x) ==
  UNION {{<<k, i>> : i \in {j \in DOMAIN lists[k] : lists[k][j] = x}} : k \in DOMAIN lists}

with(f, x) == {t \in DOMAIN f : f[t] = x}

View ==
  LET full       == full_with
      full_stack == <<full_on_stack>>
      empty      == empty_with
      chained    == LET s == chains_on_stack
                        c == empty_on_stack
                    IN  [i \in DOMAIN s |-> c[s[i]]]
      addresses  == listed
      buckets    == filled
      put        == putting
      keep       == keeping
      last       == [t \in Thread |-> data[t].last_abucket]
      bucket     == [b \in Bucket |->
        << places(full, b), places(full_stack, b), places(empty, b), places(chained, b),
           with(keep, b), with(last, b) >>]
      address    == [a \in Address |->
        << places(addresses, a), {<<bucket[p[1]], p[2]>> : p \in places(buckets, a)}, with(put, a) >>]
  IN  << vars = vars,  \* has TLC put every set of the state in normal form first
         Range(bucket), Range(address), Cardinality(live), failed,
         [t \in Thread |-> <<pending[t].kind, data[t].aas_count, data[t].abuckets_count,
                             data[t].free_abuckets_count>>] >>
=============================================================================
