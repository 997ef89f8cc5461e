------------------------------ MODULE KeyStore -------------------------------
(***************************************************************************)
(* The identity of a node over its starts and crashes: main.cpp from       *)
(* drop_keys to the saved keys, and file_save and file_load of fs.cpp.     *)
(*                                                                         *)
(* file_save truncates the file when it opens it and writes it when it     *)
(* closes it, for a key is smaller than stdio's buffer.  Nothing is synced *)
(* to the disk.  A file that is empty or cut short is Short; file_load     *)
(* takes it, and the bytes it does not fill stay zero.  The two halves of  *)
(* a key pair are one value.                                               *)
(***************************************************************************)
CONSTANTS
    Pairs,          \* the key pairs that key_gen may draw (a bound on draws)
    Missing, Short, \* no file, and a file without its content
    Blank           \* a key of zeros, as the program starts with

ASSUME KeyStoreAssumption ==
    {Missing, Short, Blank} \cap Pairs = {} /\ Missing # Short

VARIABLES
    pc,                      \* where main is
    drop_keys,               \* the option of this start
    my_pub_key, my_prv_key,  \* in memory
    pub_file, prv_file,      \* pub.key and prv.key
    dirty,                   \* which of them the system has not put on disk
    drawn                    \* the pairs key_gen has drawn so far

vars == <<pc, drop_keys, my_pub_key, my_prv_key, pub_file, prv_file, dirty, drawn>>
memory == <<my_pub_key, my_prv_key>>
files == <<pub_file, prv_file, dirty>>

off == {"down", "failed", "invalid"}

Init ==
    /\ pc = "down" /\ drop_keys = FALSE
    /\ my_pub_key = Blank /\ my_prv_key = Blank
    /\ pub_file = Missing /\ prv_file = Missing /\ dirty = {}
    /\ drawn = {}

Start ==
    /\ pc \in off
    /\ drop_keys' \in BOOLEAN
    /\ pc' = IF drop_keys' THEN "drop_pub" ELSE "look"
    /\ my_pub_key' = Blank /\ my_prv_key' = Blank
    /\ UNCHANGED <<files, drawn>>

\* remove(pub_key_path), which may fail: the result is ignored.
DropPub ==
    /\ pc = "drop_pub" /\ pc' = "drop_prv"
    /\ \/ pub_file' = Missing /\ dirty' = dirty \ {"pub"}
       \/ UNCHANGED <<pub_file, dirty>>
    /\ UNCHANGED <<drop_keys, memory, prv_file, drawn>>

\* remove(prv_key_path), likewise
DropPrv ==
    /\ pc = "drop_prv" /\ pc' = "look"
    /\ \/ prv_file' = Missing /\ dirty' = dirty \ {"prv"}
       \/ UNCHANGED <<prv_file, dirty>>
    /\ UNCHANGED <<drop_keys, memory, pub_file, drawn>>

\* Mutant: the short file shows
content_raw(file) == file

content(file) == IF file = Short THEN Blank ELSE file

\* Both files are there: file_load both, or an error of the disk.
LoadKeys ==
    /\ pc = "look" /\ pub_file # Missing /\ prv_file # Missing
    /\ \/ /\ my_pub_key' = content(pub_file) /\ my_prv_key' = content(prv_file)
          /\ pc' = "running"
       \/ pc' = "failed" /\ UNCHANGED memory
    /\ UNCHANGED <<drop_keys, files, drawn>>

\* Mutant: a missing half is enough
Generate_either ==
    /\ pc = "look" /\ (pub_file = Missing \/ prv_file = Missing)
    /\ \E k \in Pairs \ drawn : /\ my_pub_key' = k /\ my_prv_key' = k
                                /\ drawn' = drawn \cup {k}
    /\ pc' = "open_pub"
    /\ UNCHANGED <<drop_keys, files>>

\* Mutant: nobody looks
Generate_anyway ==
    /\ pc = "look"
    /\ \E k \in Pairs \ drawn : /\ my_pub_key' = k /\ my_prv_key' = k
                                /\ drawn' = drawn \cup {k}
    /\ pc' = "open_pub"
    /\ UNCHANGED <<drop_keys, files>>

\* Neither is there: key_gen, which the model lets draw a new pair each time
Generate ==
    /\ pc = "look" /\ pub_file = Missing /\ prv_file = Missing
    /\ \/ /\ \E k \in Pairs \ drawn : /\ my_pub_key' = k /\ my_prv_key' = k
                                      /\ drawn' = drawn \cup {k}
          /\ pc' = "open_pub"
       \/ pc' = "failed" /\ UNCHANGED <<memory, drawn>>
    /\ UNCHANGED <<drop_keys, files>>

\* "invalid situation"
Refuse ==
    /\ pc = "look" /\ (pub_file = Missing <=> prv_file # Missing)
    /\ pc' = "invalid"
    /\ UNCHANGED <<drop_keys, memory, files, drawn>>

\* file_save(pub_key_path, ...): the fopen, which may fail
OpenPub ==
    /\ pc = "open_pub"
    /\ \/ pc' = "close_pub" /\ pub_file' = Short
       \/ pc' = "failed" /\ UNCHANGED pub_file
    /\ UNCHANGED <<drop_keys, memory, prv_file, dirty, drawn>>

\* The fclose, which writes.  When the disk is full its result is ignored, and
\* what ferror says of a closed file is undefined.
ClosePub ==
    /\ pc = "close_pub"
    /\ \/ pc' = "open_prv" /\ pub_file' = my_pub_key /\ dirty' = dirty \cup {"pub"}
       \/ pc' \in {"open_prv", "failed"} /\ UNCHANGED <<pub_file, dirty>>
    /\ UNCHANGED <<drop_keys, memory, prv_file, drawn>>

OpenPrv ==
    /\ pc = "open_prv"
    /\ \/ pc' = "close_prv" /\ prv_file' = Short
       \/ pc' = "failed" /\ UNCHANGED prv_file
    /\ UNCHANGED <<drop_keys, memory, pub_file, dirty, drawn>>

ClosePrv ==
    /\ pc = "close_prv"
    /\ \/ pc' = "running" /\ prv_file' = my_prv_key /\ dirty' = dirty \cup {"prv"}
       \/ pc' \in {"running", "failed"} /\ UNCHANGED <<prv_file, dirty>>
    /\ UNCHANGED <<drop_keys, memory, pub_file, drawn>>

\* main returns, or the process is stopped or killed, at any point.
Exit ==
    /\ pc \notin off /\ pc' = "down"
    /\ UNCHANGED <<drop_keys, memory, files, drawn>>

\* The power fails: what is not on disk yet is lost.  (That a removed file
\* could come back is left out.)
PowerLoss ==
    /\ pc' = "down"
    /\ \/ "pub" \in dirty /\ pub_file' = Short
       \/ UNCHANGED pub_file
    /\ \/ "prv" \in dirty /\ prv_file' = Short
       \/ UNCHANGED prv_file
    /\ dirty' = {}
    /\ UNCHANGED <<drop_keys, memory, drawn>>

\* The system writes its buffers to the disk.
Flush ==
    /\ dirty # {} /\ dirty' = {}
    /\ UNCHANGED <<pc, drop_keys, memory, pub_file, prv_file, drawn>>

Next == \/ Start \/ DropPub \/ DropPrv \/ LoadKeys \/ Generate \/ Refuse
        \/ OpenPub \/ ClosePub \/ OpenPrv \/ ClosePrv
        \/ Exit \/ PowerLoss \/ Flush

Spec == Init /\ [][Next]_vars

-----------------------------------------------------------------------------
(* Properties *)

TypeOK ==
    /\ pc \in off \cup {"drop_pub", "drop_prv", "look", "open_pub", "close_pub",
                        "open_prv", "close_prv", "running"}
    /\ drop_keys \in BOOLEAN
    /\ my_pub_key \in Pairs \cup {Blank} /\ my_prv_key \in Pairs \cup {Blank}
    /\ pub_file \in Pairs \cup {Missing, Short}
    /\ prv_file \in Pairs \cup {Missing, Short}
    /\ dirty \subseteq {"pub", "prv"}
    /\ drawn \subseteq Pairs

\* Two keys that are whole belong together, on disk and in memory, whatever is
\* interrupted and whichever remove fails: the saves begin only when neither file
\* is there.
NoMixture ==
    /\ pub_file \in Pairs /\ prv_file \in Pairs => pub_file = prv_file
    /\ my_pub_key \in Pairs /\ my_prv_key \in Pairs => my_pub_key = my_prv_key

\* A pair that is on disk stays there through every start and crash; only
\* drop_keys gives it up.
KeysKept ==
    [][{pub_file, prv_file} \subseteq Pairs /\ dirty = {} /\ files' # files
           => drop_keys /\ pc \in {"drop_pub", "drop_prv"}]_vars

==============================================================================
