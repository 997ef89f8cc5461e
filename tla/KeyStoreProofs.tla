--------------------------- MODULE KeyStoreProofs ----------------------------
(***************************************************************************)
(* What holds of the key files for any number of key pairs, starts and     *)
(* crashes: they are never mixed, and never lost but for drop_keys.         *)
(***************************************************************************)
EXTENDS KeyStore, TLAPS

\* The saves begin without files, and the private key comes after the public.
SaveInv ==
    /\ pc = "open_pub" => pub_file = Missing /\ prv_file = Missing
    /\ pc = "close_pub" => pub_file = Short /\ prv_file = Missing
    /\ pc \in {"open_prv", "close_prv"} => pub_file \in {Short, my_pub_key}
    /\ pc = "open_prv" => prv_file = Missing
    /\ pc = "close_prv" => prv_file = Short
    /\ pc \in {"open_pub", "close_pub", "open_prv", "close_prv"} =>
           my_pub_key = my_prv_key /\ my_pub_key \in Pairs

\* The files are removed only for who asked for it.
DropInv == pc \in {"drop_pub", "drop_prv"} => drop_keys

IInv == TypeOK /\ SaveInv /\ DropInv /\ NoMixture

LEMMA Apart == Missing \notin Pairs /\ Short \notin Pairs /\ Blank \notin Pairs
                   /\ Missing # Short
BY KeyStoreAssumption

LEMMA InitInv == Init => IInv
BY Apart DEF Init, IInv, TypeOK, off, SaveInv, DropInv, NoMixture

LEMMA NextInv == IInv /\ [Next]_vars => IInv'
<1> SUFFICES ASSUME IInv, [Next]_vars PROVE IInv'
  OBVIOUS
<1> USE Apart DEF IInv, TypeOK, off, SaveInv, DropInv, NoMixture,
                  memory, files
<1>1. CASE Start BY <1>1 DEF Start
<1>2. CASE DropPub BY <1>2 DEF DropPub
<1>3. CASE DropPrv BY <1>3 DEF DropPrv
<1>4. CASE LoadKeys BY <1>4 DEF LoadKeys, content
<1>5. CASE Generate BY <1>5 DEF Generate
<1>6. CASE Refuse BY <1>6 DEF Refuse
<1>7. CASE OpenPub BY <1>7 DEF OpenPub
<1>8. CASE ClosePub BY <1>8 DEF ClosePub
<1>9. CASE OpenPrv BY <1>9 DEF OpenPrv
<1>10. CASE ClosePrv BY <1>10 DEF ClosePrv
<1>11. CASE Exit BY <1>11 DEF Exit
<1>12. CASE PowerLoss BY <1>12 DEF PowerLoss
<1>13. CASE Flush BY <1>13 DEF Flush
<1>14. CASE UNCHANGED vars BY <1>14 DEF vars
<1> QED
  BY <1>1, <1>2, <1>3, <1>4, <1>5, <1>6, <1>7, <1>8, <1>9, <1>10, <1>11, <1>12,
     <1>13, <1>14 DEF Next

LEMMA Inductive == Spec => []IInv
BY InitInv, NextInv, PTL DEF Spec

\* The files hold a key or what is left of one, memory a key or nothing.
THEOREM KeyTypes == Spec => []TypeOK
<1>1. IInv => TypeOK
  BY DEF IInv
<1> QED
  BY <1>1, Inductive, PTL

\* Whatever is interrupted, whole keys on disk and in memory belong together.
THEOREM PairsNotMixed == Spec => []NoMixture
<1>1. IInv => NoMixture
  BY DEF IInv
<1> QED
  BY <1>1, Inductive, PTL

\* No start, save or crash touches a pair that is on disk; drop_keys alone does.
THEOREM PairsKept == Spec => KeysKept
<1>1. IInv /\ [Next]_vars =>
          [{pub_file, prv_file} \subseteq Pairs /\ dirty = {} /\ files' # files
               => drop_keys /\ pc \in {"drop_pub", "drop_prv"}]_vars
  <2> SUFFICES ASSUME IInv, Next, pub_file \in Pairs, prv_file \in Pairs, dirty = {},
                      files' # files
               PROVE  drop_keys /\ pc \in {"drop_pub", "drop_prv"}
    BY Zenon
  <2> USE Apart DEF IInv, SaveInv, DropInv, files, memory
  <2>1. ~(OpenPub \/ ClosePub \/ OpenPrv \/ ClosePrv)
    BY DEF OpenPub, ClosePub, OpenPrv, ClosePrv
  <2>2. ~(Start \/ LoadKeys \/ Generate \/ Refuse \/ Exit \/ Flush)
    BY DEF Start, LoadKeys, Generate, Refuse, Exit, Flush
  <2>3. ~PowerLoss
    BY DEF PowerLoss
  <2>4. DropPub \/ DropPrv
    BY <2>1, <2>2, <2>3 DEF Next
  <2> QED BY <2>4 DEF DropPub, DropPrv
<1> QED
  BY <1>1, Inductive, PTL DEF Spec, KeysKept

=============================================================================
