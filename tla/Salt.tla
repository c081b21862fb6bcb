-------------------------------- MODULE Salt --------------------------------
(***************************************************************************)
(* details/ton_external.cpp, open: the salt of the database's key, and the *)
(* two directories it goes with: "db", encrypted with the global password  *)
(* and the salt, and "lib", where tonlib keeps the keys, whose secrets are *)
(* in "db".  A salt that cannot be used is replaced, and the directories   *)
(* with it; the process may stop between any two steps.                    *)
(*                                                                         *)
(* The file of the salt is buffered: what a write reports is in the        *)
(* buffer, and goes to the disk when the file is closed, which may fail.   *)
(* One process works with the directories.                                 *)
(***************************************************************************)
EXTENDS Naturals

CONSTANTS
    MaxSalts    \* bound: salts drawn

ASSUME MaxSaltsAssumption == MaxSalts \in Nat \ {0}

VARIABLES
    salt,   \* the file "salt"
    db,     \* the directory "db"
    lib,    \* the directory "lib"
    _salt,  \* External::_salt
    drawn,  \* salts drawn
    step,   \* how far open has come
    unflushed   \* history: the last salt written never left the file's buffer

vars == <<salt, db, lib, _salt, drawn, step, unflushed>>

\* Salts are numbered in the order they are drawn; 0 is none.  A file "salt"
\* of the right size holds one.
Salts == 0..MaxSalts
SaltFile == {"none", "symlink", "directory", "other size", "salt"}
Steps == {"closed", "remove db", "remove lib", "create", "write", "open db",
          "start lib", "opened"}

\* A directory, the salt that was used when its files were made, and whether
\* a removal has left a part of them.
Directory == [salt : Salts, whole : BOOLEAN]
Absent == [salt |-> 0, whole |-> TRUE]
With(s) == [salt |-> s, whole |-> TRUE]

\* openDatabase: Expects(_salt.size() == kSaltSize), among the types.
TypeOK ==
    /\ salt \in [kind : SaltFile, value : Salts]
    /\ salt.value # 0 <=> salt.kind = "salt"
    /\ db \in Directory /\ lib \in Directory
    /\ _salt \in Salts
    /\ drawn \in Salts
    /\ step \in Steps
    /\ step \in {"write", "open db", "start lib", "opened"} => _salt # 0
    /\ unflushed \in BOOLEAN

\* The first salt may have been drawn, and damaged.
Init ==
    /\ drawn \in {0, 1}
    /\ salt \in [kind : SaltFile, value : 0..drawn]
    /\ salt.value # 0 <=> salt.kind = "salt"
    /\ db \in {Absent, With(drawn)} /\ lib \in {Absent, With(drawn)}
    /\ _salt = 0
    /\ step = "closed"
    /\ unflushed = FALSE

NoSalt == [kind |-> "none", value |-> 0]

\* open fails, and may be called again.
Fail == step' = "closed"

-----------------------------------------------------------------------------
\* loadSalt

\* A salt that cannot be read fails open and stays.
LoadSalt ==
    /\ step = "closed" /\ salt.kind = "salt"
    /\ _salt' = salt.value
    /\ step' = "open db"
    /\ UNCHANGED <<salt, db, lib, drawn, unflushed>>

\* Mutant of DropBadSalt: a salt that cannot be read counts as a bad one.
DropAnySalt ==
    /\ step = "closed"
    /\ salt' = NoSalt
    /\ step' = "remove db"
    /\ UNCHANGED <<db, lib, _salt, drawn, unflushed>>

\* What is not a file of the right size is removed, if it can be.
DropBadSalt ==
    /\ step = "closed" /\ salt.kind # "salt"
    /\ salt' = NoSalt
    /\ step' = "remove db"
    /\ UNCHANGED <<db, lib, _salt, drawn, unflushed>>

\* writeNewSalt

RemoveDb ==
    /\ step = "remove db"
    /\ \/ /\ db' = Absent
          /\ step' = "remove lib"
       \/ /\ db' = IF db = Absent THEN db ELSE [db EXCEPT !.whole = FALSE]
          /\ Fail
    /\ UNCHANGED <<salt, lib, _salt, drawn, unflushed>>

\* Mutant of RemoveLib: an error does not stop it.
RemoveLibAnyhow ==
    /\ step = "remove lib"
    /\ \/ lib' = Absent
       \/ lib' = IF lib = Absent THEN lib ELSE [lib EXCEPT !.whole = FALSE]
    /\ step' = "create"
    /\ UNCHANGED <<salt, db, _salt, drawn, unflushed>>

RemoveLib ==
    /\ step = "remove lib"
    /\ \/ /\ lib' = Absent
          /\ step' = "create"
       \/ /\ lib' = IF lib = Absent THEN lib ELSE [lib EXCEPT !.whole = FALSE]
          /\ Fail
    /\ UNCHANGED <<salt, db, _salt, drawn, unflushed>>

\* A random salt, and the file to hold it.
CreateSalt ==
    /\ step = "create" /\ drawn < MaxSalts
    /\ drawn' = drawn + 1
    /\ _salt' = drawn + 1
    /\ \/ /\ salt' = [kind |-> "other size", value |-> 0]
          /\ step' = "write"
       \/ /\ Fail
          /\ UNCHANGED salt
    /\ UNCHANGED <<db, lib, unflushed>>

\* There is no place for the file.
NoPath ==
    /\ step = "create"
    /\ Fail
    /\ UNCHANGED <<salt, db, lib, _salt, drawn, unflushed>>

\* The bytes go to a buffer, and from there to the file when it is closed on
\* return: what is lost then is not heard of, and the file stays short.  Only an
\* error that write itself reports is.
WriteSalt ==
    /\ step = "write"
    /\ \/ /\ salt' = [kind |-> "salt", value |-> _salt]
          /\ step' = "open db"
          /\ unflushed' = FALSE
       \/ /\ step' = "open db"
          /\ unflushed' = TRUE
          /\ UNCHANGED salt
       \/ /\ Fail
          /\ UNCHANGED <<salt, unflushed>>
    /\ UNCHANGED <<db, lib, _salt, drawn>>

-----------------------------------------------------------------------------
\* The rest of open, and after it.

\* A database that is not there is made.
OpenDatabase ==
    /\ step = "open db"
    /\ \/ /\ db.whole /\ db.salt \in {0, _salt}
          /\ db' = With(_salt)
          /\ step' = "start lib"
       \/ /\ Fail
          /\ UNCHANGED db
    /\ UNCHANGED <<salt, lib, _salt, drawn, unflushed>>

StartLibrary ==
    /\ step = "start lib"
    /\ step' \in {"opened", "closed"}
    /\ UNCHANGED <<salt, db, lib, _salt, drawn, unflushed>>

CreateKey ==
    /\ step = "opened"
    /\ lib' = With(_salt)
    /\ UNCHANGED <<salt, db, _salt, drawn, step, unflushed>>

\* The process stops.
Restart ==
    /\ step' = "closed"
    /\ _salt' = 0
    /\ UNCHANGED <<salt, db, lib, drawn, unflushed>>

-----------------------------------------------------------------------------

Next ==
    \/ LoadSalt \/ DropBadSalt
    \/ RemoveDb \/ RemoveLib \/ CreateSalt \/ NoPath \/ WriteSalt
    \/ OpenDatabase \/ StartLibrary
    \/ CreateKey \/ Restart

Spec == Init /\ [][Next]_vars

-----------------------------------------------------------------------------
(* Safety *)

\* A salt that can be used is the salt of the directories: the database can
\* be opened by its password and the keys have their secrets in it, wherever
\* a replacement was interrupted.
SaltOpensAll ==
    salt.kind = "salt" => \A d \in {db, lib} : d.whole /\ d.salt \in {0, salt.value}

\* What can be used stays: no step replaces a salt that is there, nor takes
\* away the database or the keys that go with it.
UsableStays ==
    [][salt.kind = "salt" =>
          /\ salt' = salt
          /\ db' \in {db, With(salt.value)} /\ lib' \in {lib, With(salt.value)}]_vars

\* The database in use is made with the salt that is in the file: loadSalt
\* finds it there at the next start, and takes nothing away.  writeNewSalt checks
\* what write returns for this (ton_external.cpp:313), which does not tell
\* whether the buffer was flushed.
SaltIsSaved ==
    step \in {"open db", "start lib", "opened"} =>
        salt.kind = "salt" /\ salt.value = _salt

\* What is on the disk goes together, and with what is in use.  The exception is
\* real: a salt that never left the buffer, whose database and keys go with the
\* next start.
SaltHolds == SaltOpensAll /\ (unflushed \/ SaltIsSaved)

=============================================================================
