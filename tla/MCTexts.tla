------------------------------ MODULE MCTexts ------------------------------
\* Texts of messages, on the disk and in slices, which share nothing: what the
\* database holds is loaded again, older transactions are asked for and shown.
\* A behaviour exercises one.
EXTENDS MCStorage, MCSlices

VARIABLE part

\* A viewer nobody calls, and a database nobody opens.
IdleSlices ==
    /\ slices \in {CHOOSE f \in Contents : TRUE}
    /\ calls \in {[c \in Calls |-> [at |-> "none", id |-> CHOOSE i \in Ids : TRUE]]}
    /\ password \in {FALSE}
    /\ SlicesInit

IdleStorage ==
    /\ drawn \in {0} /\ salt \in {NoSalt} /\ db \in {Absent} /\ lib \in {Absent}
    /\ told \in {CHOOSE s \in Told : TRUE}
    /\ StoreInit

TextsInit ==
    \/ part = "database" /\ IdleSlices /\ StoreInit
    \/ part = "slices" /\ IdleStorage /\ SlicesInit

TextsNext ==
    /\ UNCHANGED part
    /\ \/ part = "database" /\ StoreNext /\ UNCHANGED slicesVars
       \/ part = "slices" /\ SlicesNext /\ UNCHANGED allVars

TextsSpec == TextsInit /\ [][TextsNext]_<<allVars, slicesVars, part>>
=============================================================================
