---------------------------- MODULE JournalSpec ----------------------------
(***************************************************************************)
(* What a journal partition promises its clients, with every operation in  *)
(* one step: records are added, candidates are proposed against the        *)
(* version a record has, a compaction makes a batch of candidates the new  *)
(* versions of their records, all at once, and a candidate whose record    *)
(* has another version by then is passed over.  There are no files, locks, *)
(* revisions or descriptors here, and no crash: none is visible.           *)
(***************************************************************************)
EXTENDS Sequences

CONSTANTS RecId, CandId, None

VARIABLES
  history,  \* history[r]: the candidates that made the version of r, oldest first; None: no such record
  basis,    \* basis[c]: the version that candidate c was made from, None until there is a c
  told      \* told[r]: what the client that added r was told

Version(r) == [id |-> r, by |-> history[r]]

Init ==
  /\ history \in [RecId -> {None, <<>>}]
  /\ basis = [c \in CandId |-> None]
  /\ told = [r \in RecId |-> "none"]

Add(r) ==
  /\ history[r] = None
  /\ history' = [history EXCEPT ![r] = <<>>]
  /\ UNCHANGED <<basis, told>>

\* 201, or 202 for a record that searches may not find yet.
Tell(r, text) ==
  /\ history[r] # None
  /\ told[r] = "none"
  /\ told' = [told EXCEPT ![r] = text]
  /\ UNCHANGED <<history, basis>>

Propose(c, r) ==
  /\ history[r] # None
  /\ basis[c] = None
  /\ basis' = [basis EXCEPT ![c] = Version(r)]
  /\ UNCHANGED <<history, told>>

\* The candidates of the batch that were made from the version r has.
Fitting(batch, r) == {c \in batch : basis[c] = Version(r)}

Materialise(batch) ==
  /\ \A c, d \in batch : basis[c].id = basis[d].id => c = d
  /\ history' = [r \in RecId |->
                   IF Fitting(batch, r) = {} THEN history[r]
                   ELSE Append(history[r], CHOOSE c \in Fitting(batch, r) : TRUE)]
  /\ UNCHANGED <<basis, told>>

Next ==
  \/ \E r \in RecId : Add(r)
  \/ \E r \in RecId, text \in {"created", "accepted"} : Tell(r, text)
  \/ \E c \in CandId, r \in RecId : Propose(c, r)
  \/ \E batch \in SUBSET {c \in CandId : basis[c] # None} : Materialise(batch)

Spec == Init /\ [][Next]_<<history, basis, told>>
=============================================================================
