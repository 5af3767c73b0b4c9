----------------------------- MODULE EntryLists -----------------------------
(***************************************************************************)
(* The Redis lists that hold crawl tasks and crawl results: sequences of   *)
(* records with an id, the head first.  LPUSH is Cons, the tail that       *)
(* BRPOPLPUSH and RPOPLPUSH take is Last, what they leave is Front, and    *)
(* LREM with count 1 is RemoveFirst (or RemoveId where a script searches   *)
(* for the id).  The operators are those of the community modules with the *)
(* same names, without the theory of bags that SequencesExt brings along.  *)
(***************************************************************************)
EXTENDS Integers, Sequences, FiniteSetsExt

ToSet(list) == {list[k] : k \in DOMAIN list}

Cons(e, list) == <<e>> \o list
Last(list) == list[Len(list)]
Front(list) == SubSeq(list, 1, Len(list) - 1)
RemoveAt(list, k) == SubSeq(list, 1, k - 1) \o SubSeq(list, k + 1, Len(list))

\* The list without the first of the entries at these places, if there are any.
RemoveFirstOf(list, places) ==
  IF places = {} THEN list ELSE RemoveAt(list, Min(places))

RemoveFirst(list, e) == RemoveFirstOf(list, {k \in DOMAIN list : list[k] = e})
RemoveId(list, t) == RemoveFirstOf(list, {k \in DOMAIN list : list[k].id = t})

Ids(list) == {e.id : e \in ToSet(list)}

OneEntryPerId(list) ==
  \A i, k \in DOMAIN list : list[i].id = list[k].id => i = k
=============================================================================
