------------------------------- MODULE LruCache -------------------------------
(***************************************************************************)
(* A cache that forgets what was used least recently, without sequence     *)
(* numbers: a list of the keys in the order of their last use, cut to its  *)
(* last "limit" keys whenever it grows longer than limit + slop.           *)
(***************************************************************************)
EXTENDS Emulator, SequencesExt

CONSTANTS Limits, Slops, DefaultSlop

VARIABLES recent, limit, slop

lruVars == <<recent, limit, slop>>

Keys == Inputs \X States

LruInit == recent = <<>> /\ limit = 0 /\ slop = 0

\* The cache is emptied and given new bounds.
Empty(n, ss) == recent' = <<>> /\ limit' = n /\ slop' = ss

UseKnown(k) ==
  /\ \E n \in 1..Len(recent) :
       recent[n] = k /\ recent' = Append(RemoveAt(recent, n), k)
  /\ UNCHANGED <<limit, slop>>

UseNew(k) ==
  LET longer == Append(recent, k)
  IN  /\ ~ Contains(recent, k)
      /\ recent' = IF Len(longer) > limit + slop
                   THEN SubSeq(longer, Len(longer) - limit + 1, Len(longer))
                   ELSE longer
      /\ Contains(recent', k)
      /\ UNCHANGED <<limit, slop>>

LruNext ==
  \/ \E n \in Limits \cup {0}, ss \in Slops \cup {DefaultSlop, 0} : Empty(n, ss)
  \/ \E k \in Keys : UseKnown(k) \/ UseNew(k)

LruSpec == LruInit /\ [][LruNext]_lruVars

=============================================================================
