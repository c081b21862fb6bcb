----------------------- MODULE ViewersPasswordsProofs -----------------------
(***************************************************************************)
(* Proofs about ViewersPasswords: its types, that passwords are remembered *)
(* of listed keys only, and that nobody waits for a password that was      *)
(* typed already.  The three are inductive together: a decrypt waits only  *)
(* with the generation it finds, and whoever changes a generation sends    *)
(* all that wait for it.                                                   *)
(***************************************************************************)
EXTENDS ViewersPasswords, TLAPS

\* What each remembered password and each call contribute.
PasswordsOK(p, list) ==
    /\ DOMAIN p \subseteq list
    /\ \A k \in DOMAIN p : p[k] \in ViewersPassword

CallOK(call, p) ==
    /\ call \in Call
    /\ call.at = "out" <=> call.bytes # Empty
    /\ call.at # "out" => call.answer = "pending"
    /\ call.at = "waiting" => /\ call.key \in DOMAIN p
                              /\ p[call.key].generation = call.generation

\* What is left: the keys and the counts.
RestOK ==
    /\ listed \subseteq Keys
    /\ right \in [Keys -> Bytes]
    /\ timer \in BOOLEAN
    /\ typed \in 0..MaxTyped
    /\ erased \subseteq Keys

AllCallsOK(f, p) == f = [c \in Calls |-> f[c]] /\ \A c \in Calls : CallOK(f[c], p)

IInv ==
    /\ RestOK
    /\ PasswordsOK(passwords, listed)
    /\ AllCallsOK(calls, passwords)

\* The inductive invariant says what the properties of the runs say.
LEMMA IInvImplies == IInv => TypeOK /\ RemembersListedOnly /\ WaitsForNewer
  <1> SUFFICES ASSUME IInv PROVE TypeOK /\ RemembersListedOnly /\ WaitsForNewer
    OBVIOUS
  <1> USE DEF IInv, RestOK, PasswordsOK, AllCallsOK, CallOK
  <1>1. calls \in [Calls -> Call]
    OBVIOUS
  <1>2. TypeOK
    BY <1>1 DEF TypeOK
  <1>3. RemembersListedOnly
    BY DEF RemembersListedOnly
  <1>4. WaitsForNewer
    BY DEF WaitsForNewer
  <1> QED
    BY <1>2, <1>3, <1>4

-----------------------------------------------------------------------------
\* Calls

LEMMA NoCallOK ==
  ASSUME NEW call \in Call, NEW p, NEW at \in {"none", "answered", "dropped"}
  PROVE  CallOK([NoCall(call.key) EXCEPT !.at = at], p)
  BY DEF CallOK, Call, NoCall, Answers

LEMMA SentOK ==
  ASSUME NEW c, calls[c] \in Call, NEW p, NEW q,
         p.bytes \in Bytes, p.generation \in Nat
  PROVE  CallOK(Sent(c, p), q) /\ Sent(c, p).key = calls[c].key
  BY EmptyAssumption DEF CallOK, Call, Sent, Answers

LEMMA WaitsOK ==
  ASSUME NEW c, calls[c] \in Call, NEW p, NEW q, p.generation \in Nat,
         calls[c].key \in DOMAIN q, q[calls[c].key].generation = p.generation
  PROVE  CallOK(Waits(c, p), q)
  <1>1. /\ Waits(c, p) \in Call
        /\ Waits(c, p).key = calls[c].key
        /\ Waits(c, p).generation = p.generation
        /\ Waits(c, p).at = "waiting"
        /\ Waits(c, p).bytes = Empty
        /\ Waits(c, p).answer = "pending"
    BY DEF Call, Waits, Answers
  <1> HIDE DEF Waits
  <1> QED
    BY <1>1 DEF CallOK

\* A call that changes alone.
LEMMA OneCall ==
  ASSUME IInv, NEW c \in Calls, NEW call, CallOK(call, passwords')
         , calls' = [calls EXCEPT ![c] = call],
         \A d \in Calls \ {c} : CallOK(calls[d], passwords')
  PROVE  AllCallsOK(calls', passwords')
  <1>1. /\ calls'[c] = call
        /\ \A d \in Calls \ {c} : calls'[d] = calls[d]
        /\ calls' = [d \in Calls |-> calls'[d]]
    BY DEF IInv, AllCallsOK
  <1> QED
    BY <1>1 DEF AllCallsOK

\* The generations a change of the passwords leaves alone.
LEMMA SameGenerations ==
  ASSUME NEW call, NEW p, NEW q, CallOK(call, p),
         call.at = "waiting" /\ call.key \in DOMAIN p =>
             /\ call.key \in DOMAIN q
             /\ q[call.key].generation = p[call.key].generation
  PROVE  CallOK(call, q)
  BY DEF CallOK

-----------------------------------------------------------------------------
\* Passwords

LEMMA EntryOK ==
  ASSUME IInv, NEW k \in Keys
  PROVE  /\ Entry(k) \in ViewersPassword
         /\ k \in DOMAIN passwords => Entry(k) = passwords[k]
  BY DEF Entry, Fresh, IInv, PasswordsOK, ViewersPassword

\* A password is typed: other bytes, the next generation.
LEMMA Retyped ==
  ASSUME NEW p \in ViewersPassword, NEW bytes \in Bytes
  PROVE  LET q == [p EXCEPT !.bytes = bytes, !.generation = @ + 1]
         IN q \in ViewersPassword /\ q.bytes = bytes /\ q.generation \in Nat
  <1> DEFINE r == [p EXCEPT !.bytes = bytes]
             q == [p EXCEPT !.bytes = bytes, !.generation = @ + 1]
  <1>1. r \in ViewersPassword /\ r.bytes = bytes /\ r.generation = p.generation
    BY DEF ViewersPassword
  <1>2. q = [r EXCEPT !.generation = p.generation + 1]
    OBVIOUS
  <1>3. p.generation + 1 \in Nat
    BY DEF ViewersPassword
  <1> HIDE DEF r
  <1>4. /\ [r EXCEPT !.generation = p.generation + 1] \in ViewersPassword
        /\ [r EXCEPT !.generation = p.generation + 1].bytes = bytes
        /\ [r EXCEPT !.generation = p.generation + 1].generation \in Nat
    BY <1>1, <1>3 DEF ViewersPassword
  <1> HIDE DEF q
  <1>5. q \in ViewersPassword /\ q.bytes = bytes /\ q.generation \in Nat
    BY <1>2, <1>4
  <1> QED
    BY <1>5 DEF q

LEMMA WithOK ==
  ASSUME IInv, NEW k \in listed, NEW p \in ViewersPassword
  PROVE  /\ PasswordsOK(With(k, p), listed)
         /\ DOMAIN With(k, p) = DOMAIN passwords \cup {k}
         /\ With(k, p)[k] = p
         /\ \A j \in DOMAIN passwords : j # k => With(k, p)[j] = passwords[j]
  BY DEF With, IInv, PasswordsOK

LEMMA EraseKeeps ==
  ASSUME IInv, NEW S \in SUBSET Keys, Erase(S), listed \ S \subseteq listed'
  PROVE  /\ PasswordsOK(passwords', listed')
         /\ AllCallsOK(calls', passwords')
         /\ erased' \subseteq Keys
  <1>1. /\ passwords' = [j \in DOMAIN passwords \ S |-> passwords[j]]
        /\ DOMAIN passwords' = DOMAIN passwords \ S
        /\ \A j \in DOMAIN passwords' : passwords'[j] = passwords[j]
    BY DEF Erase, Without, Restrict
  <1>2. PasswordsOK(passwords', listed')
    BY <1>1 DEF IInv, PasswordsOK
  <1>3. ASSUME NEW c \in Calls
        PROVE  CallOK(calls'[c], passwords')
    <2>1. calls[c] \in Call /\ CallOK(calls[c], passwords)
      BY DEF IInv, AllCallsOK, CallOK
    <2>2. CASE c \in UNION {Waiting(k) : k \in S}
      <3>1. calls'[c] = [NoCall(calls[c].key) EXCEPT !.at = "dropped"]
        BY <2>2 DEF Erase
      <3> QED
        BY <3>1, <2>1, NoCallOK
    <2>3. CASE c \notin UNION {Waiting(k) : k \in S}
      <3>1. calls'[c] = calls[c]
        BY <2>3 DEF Erase
      <3>2. calls[c].at = "waiting" => calls[c].key \notin S
        BY <2>3 DEF Waiting
      <3> QED
        BY <3>1, <3>2, <2>1, <1>1, SameGenerations
    <2> QED
      BY <2>2, <2>3
  <1>4. calls' = [c \in Calls |-> calls'[c]]
    BY DEF Erase
  <1>5. erased' \subseteq Keys
    BY DEF Erase, IInv, RestOK
  <1> QED
    BY <1>2, <1>3, <1>4, <1>5 DEF AllCallsOK

LEMMA RunDecryptKeeps ==
  ASSUME IInv, NEW c \in Calls, calls[c].key \in listed, RunDecrypt(c)
  PROVE  PasswordsOK(passwords', listed) /\ AllCallsOK(calls', passwords')
  <1> DEFINE k == calls[c].key
             p == Entry(k)
             q == [p EXCEPT !.expires = IF p.bytes = Empty THEN "zero" ELSE @]
  <1>0. calls[c] \in Call /\ k \in Keys
    BY DEF IInv, AllCallsOK, CallOK, RestOK
  <1>1. p \in ViewersPassword /\ (k \in DOMAIN passwords => p = passwords[k])
    BY <1>0, EntryOK
  <1>2. q \in ViewersPassword /\ q.generation = p.generation /\ q.bytes = p.bytes
    <2> HIDE DEF p
    <2> QED BY <1>1 DEF ViewersPassword
  <1>3. passwords' = With(k, q)
    BY DEF RunDecrypt
  <1>3a. calls' = [calls EXCEPT ![c] =
                     IF p.bytes = Empty THEN Waits(c, p) ELSE Sent(c, p)]
    BY DEF RunDecrypt
  <1> HIDE DEF p, q
  <1>4. /\ PasswordsOK(passwords', listed)
        /\ DOMAIN passwords' = DOMAIN passwords \cup {k}
        /\ passwords'[k].generation = p.generation
        /\ \A j \in DOMAIN passwords : j # k => passwords'[j] = passwords[j]
    BY <1>2, <1>3, WithOK
  <1>5. \A j \in DOMAIN passwords : passwords'[j].generation = passwords[j].generation
    BY <1>4, <1>1
  <1>6. ASSUME NEW d \in Calls PROVE CallOK(calls[d], passwords')
    <2>1. CallOK(calls[d], passwords)
      BY DEF IInv, AllCallsOK
    <2> QED
      BY <2>1, <1>4, <1>5, SameGenerations
  <1>7. CASE p.bytes = Empty
    <2>1. CallOK(Waits(c, p), passwords')
      BY <1>0, <1>1, <1>4, WaitsOK DEF ViewersPassword
    <2> QED
      BY <1>3a, <1>7, <1>4, <1>6, <2>1, OneCall
  <1>8. CASE p.bytes # Empty
    <2>1. p.bytes \in Bytes /\ p.generation \in Nat
      BY <1>1, <1>8 DEF ViewersPassword
    <2>2. CallOK(Sent(c, p), passwords')
      BY <1>0, <2>1, SentOK
    <2> QED
      BY <1>3a, <1>8, <1>4, <1>6, <2>2, OneCall
  <1> QED
    BY <1>7, <1>8

\* An expiry changes no generation.
LEMMA ExpiryKeeps ==
  ASSUME IInv, NEW k \in DOMAIN passwords, NEW at \in {"zero", "later", "passed"},
         passwords' = [passwords EXCEPT ![k].expires = at]
  PROVE  /\ PasswordsOK(passwords', listed)
         /\ \A c \in Calls : CallOK(calls[c], passwords')
         /\ DOMAIN passwords' = DOMAIN passwords
         /\ \A j \in DOMAIN passwords : passwords'[j].generation = passwords[j].generation
  <1>1. /\ DOMAIN passwords' = DOMAIN passwords
        /\ passwords'[k] = [passwords[k] EXCEPT !.expires = at]
        /\ \A j \in DOMAIN passwords : j # k => passwords'[j] = passwords[j]
    OBVIOUS
  <1>2. \A j \in DOMAIN passwords : passwords[j] \in ViewersPassword
    BY DEF IInv, PasswordsOK
  <1>3. /\ passwords'[k] \in ViewersPassword
        /\ passwords'[k].generation = passwords[k].generation
    BY <1>1, <1>2 DEF ViewersPassword
  <1>4. PasswordsOK(passwords', listed)
    BY <1>1, <1>2, <1>3 DEF PasswordsOK, IInv
  <1>5. \A j \in DOMAIN passwords : passwords'[j].generation = passwords[j].generation
    BY <1>1, <1>3
  <1>6. ASSUME NEW c \in Calls PROVE CallOK(calls[c], passwords')
    <2>1. CallOK(calls[c], passwords)
      BY DEF IInv, AllCallsOK
    <2> QED
      BY <2>1, <1>1, <1>5, SameGenerations
  <1> QED
    BY <1>1, <1>4, <1>5, <1>6

LEMMA GoodKeeps ==
  ASSUME IInv, NEW k \in Keys, NotifyPasswordGood(k)
  PROVE  /\ PasswordsOK(passwords', listed)
         /\ \A c \in Calls : CallOK(calls[c], passwords')
         /\ timer' \in BOOLEAN
  <1>1. CASE k \in DOMAIN passwords /\ passwords[k].expires = "zero"
    BY <1>1, ExpiryKeeps DEF NotifyPasswordGood
  <1>2. CASE ~ (k \in DOMAIN passwords /\ passwords[k].expires = "zero")
    BY <1>2 DEF NotifyPasswordGood, IInv, RestOK, AllCallsOK
  <1> QED
    BY <1>1, <1>2

-----------------------------------------------------------------------------
\* The actions.

LEMMA DecryptKeeps == ASSUME IInv, NEW c \in Calls, Decrypt(c) PROVE IInv'
  BY RunDecryptKeeps DEF Decrypt, IInv, RestOK

LEMMA TypePasswordKeeps ==
  ASSUME IInv, NEW k \in Keys, NEW bytes \in Bytes, TypePassword(k, bytes)
  PROVE  IInv'
  <1> DEFINE p == [Entry(k) EXCEPT !.bytes = bytes, !.generation = @ + 1]
  <1>1. p \in ViewersPassword /\ p.bytes = bytes /\ p.generation \in Nat
    BY EntryOK, Retyped
  <1>2. /\ k \in listed
        /\ passwords' = With(k, p)
        /\ calls' = [c \in Calls |->
                       IF c \in Waiting(k) THEN Sent(c, p) ELSE calls[c]]
    BY DEF TypePassword, UpdateViewersPassword
  <1> HIDE DEF p
  <1>3. /\ PasswordsOK(passwords', listed)
        /\ DOMAIN passwords' = DOMAIN passwords \cup {k}
        /\ \A j \in DOMAIN passwords : j # k => passwords'[j] = passwords[j]
    BY <1>1, <1>2, WithOK
  <1>4. ASSUME NEW c \in Calls PROVE CallOK(calls'[c], passwords')
    <2>1. CallOK(calls[c], passwords) /\ calls[c] \in Call
      BY DEF IInv, AllCallsOK, CallOK
    <2>2. CASE c \in Waiting(k)
      <3>1. calls'[c] = Sent(c, p)
        BY <1>2, <2>2
      <3> QED
        BY <3>1, <2>1, <1>1, SentOK
    <2>3. CASE c \notin Waiting(k)
      <3>1. calls'[c] = calls[c]
        BY <1>2, <2>3
      <3>2. calls[c].at = "waiting" => calls[c].key # k
        BY <2>3 DEF Waiting
      <3> QED
        BY <3>1, <3>2, <2>1, <1>3, SameGenerations
    <2> QED
      BY <2>2, <2>3
  <1>5. AllCallsOK(calls', passwords')
    BY <1>2, <1>4 DEF AllCallsOK
  <1>6. RestOK' /\ listed' = listed
    BY MaxTypedAssumption DEF TypePassword, IInv, RestOK
  <1> QED
    BY <1>3, <1>5, <1>6 DEF IInv

LEMMA PasswordChangedKeeps ==
  ASSUME IInv, NEW bytes \in Bytes, PasswordChanged(bytes)
  PROVE  IInv'
  <1> DEFINE new == [k \in DOMAIN passwords |->
                       [passwords[k] EXCEPT !.bytes = bytes, !.generation = @ + 1]]
  <1>1. /\ passwords' = new
        /\ calls' = [c \in Calls |->
                       IF calls[c].at = "waiting" /\ calls[c].key \in DOMAIN new
                         THEN Sent(c, new[calls[c].key]) ELSE calls[c]]
        /\ listed' = listed
    BY DEF PasswordChanged
  <1>2. \A k \in DOMAIN passwords : passwords[k] \in ViewersPassword
    BY DEF IInv, PasswordsOK
  <1>3. /\ DOMAIN new = DOMAIN passwords
        /\ \A k \in DOMAIN passwords : /\ new[k] \in ViewersPassword
                                       /\ new[k].bytes = bytes
                                       /\ new[k].generation \in Nat
    BY <1>2, Retyped
  <1> HIDE DEF new
  <1>4. PasswordsOK(passwords', listed')
    BY <1>1, <1>3 DEF IInv, PasswordsOK
  <1>5. ASSUME NEW c \in Calls PROVE CallOK(calls'[c], passwords')
    <2>1. CallOK(calls[c], passwords) /\ calls[c] \in Call
      BY DEF IInv, AllCallsOK, CallOK
    <2>2. CASE calls[c].at = "waiting"
      <3>1. calls[c].key \in DOMAIN passwords
        BY <2>1, <2>2 DEF CallOK
      <3>2. calls'[c] = Sent(c, new[calls[c].key])
        BY <1>1, <1>3, <2>2, <3>1
      <3> QED
        BY <3>1, <3>2, <2>1, <1>3, SentOK
    <2>3. CASE calls[c].at # "waiting"
      <3>1. calls'[c] = calls[c]
        BY <1>1, <2>3
      <3> QED
        BY <3>1, <2>1, <2>3, SameGenerations
    <2> QED
      BY <2>2, <2>3
  <1>6. AllCallsOK(calls', passwords')
    BY <1>1, <1>5 DEF AllCallsOK
  <1>7. RestOK'
    <2>1. right' \in [Keys -> Bytes]
      BY DEF PasswordChanged, IInv, RestOK
    <2>2. typed' \in 0..MaxTyped
      <3>1. typed \in 0..MaxTyped /\ typed < MaxTyped /\ typed' = typed + 1
        BY DEF PasswordChanged, IInv, RestOK
      <3> QED
        BY <3>1, MaxTypedAssumption
    <2>3. timer' \in BOOLEAN
      BY Zenon DEF PasswordChanged, IInv, RestOK
    <2> QED
      BY <2>1, <2>2, <2>3 DEF PasswordChanged, IInv, RestOK
  <1> QED
    BY <1>4, <1>6, <1>7 DEF IInv

LEMMA ErasingKeeps ==
  ASSUME IInv, CheckPasswordsExpiration \/ AllKeysDeleted
               \/ \E k \in Keys : ClearPassword(k) \/ KeyDeleted(k)
  PROVE  IInv'
  <1>1. CASE CheckPasswordsExpiration
    <2>1. Expired \in SUBSET Keys
      BY DEF Expired, IInv, PasswordsOK, RestOK
    <2>2. Erase(Expired) /\ listed' = listed
      BY <1>1 DEF CheckPasswordsExpiration
    <2>3. timer' \in BOOLEAN
      BY <1>1, Zenon DEF CheckPasswordsExpiration
    <2> QED
      BY <1>1, <2>1, <2>2, <2>3, EraseKeeps DEF CheckPasswordsExpiration, IInv, RestOK
  <1>2. CASE AllKeysDeleted
    BY <1>2, EraseKeeps DEF AllKeysDeleted, IInv, RestOK
  <1>3. ASSUME NEW k \in Keys, ClearPassword(k) PROVE IInv'
    BY <1>3, EraseKeeps DEF ClearPassword, IInv, RestOK
  <1>4. ASSUME NEW k \in Keys, KeyDeleted(k) PROVE IInv'
    BY <1>4, EraseKeeps DEF KeyDeleted, IInv, RestOK
  <1> QED
    BY <1>1, <1>2, <1>3, <1>4

LEMMA KeySavedKeeps == ASSUME IInv, NEW k \in Keys, KeySaved(k) PROVE IInv'
  BY DEF KeySaved, IInv, RestOK, PasswordsOK

LEMMA PassKeeps == ASSUME IInv, NEW k \in Keys, Pass(k) PROVE IInv'
  BY ExpiryKeeps DEF Pass, IInv, RestOK, AllCallsOK

LEMMA LibDecryptsKeeps == ASSUME IInv, NEW c \in Calls, LibDecrypts(c) PROVE IInv'
  <1>1. PICK answer \in Answers : calls' = [calls EXCEPT ![c].answer = answer]
    BY DEF LibDecrypts, Answers
  <1> DEFINE call == [calls[c] EXCEPT !.answer = answer]
  <1>2. CallOK(calls[c], passwords) /\ calls[c].at = "out"
    BY DEF IInv, AllCallsOK, LibDecrypts
  <1>3. CallOK(call, passwords)
    BY <1>2 DEF CallOK, Call
  <1>4. UNCHANGED <<listed, right, passwords, timer, typed, erased>>
    BY DEF LibDecrypts
  <1>5. calls' = [calls EXCEPT ![c] = call]
    BY <1>1
  <1> HIDE DEF call
  <1>6. AllCallsOK(calls', passwords')
    BY <1>3, <1>4, <1>5, OneCall DEF IInv, AllCallsOK
  <1> QED
    BY <1>4, <1>6 DEF IInv, RestOK

LEMMA AnswerKeeps == ASSUME IInv, NEW c \in Calls, Answer(c) PROVE IInv'
  <1>0. calls[c] \in Call /\ calls[c].key \in Keys
    BY DEF IInv, AllCallsOK, CallOK, Call
  <1>1. CASE OnDecrypted(c) \/ OnIncorrectDeleted(c)
    <2>1. /\ NotifyPasswordGood(calls[c].key)
          /\ calls' = [calls EXCEPT ![c] = Answered(c)]
          /\ UNCHANGED <<listed, right, typed, erased>>
      BY <1>1 DEF OnDecrypted, OnIncorrectDeleted
    <2>2. CallOK(Answered(c), passwords')
      BY <1>0, NoCallOK DEF Answered
    <2> QED
      BY <1>0, <2>1, <2>2, GoodKeeps, OneCall DEF IInv, RestOK
  <1>2. CASE OnIncorrect(c)
    <2> DEFINE k == calls[c].key
    <2>1. /\ k \in DOMAIN passwords
          /\ passwords' = [passwords EXCEPT ![k].expires = "zero"]
          /\ calls' = [calls EXCEPT ![c] = Waits(c, passwords[k])]
          /\ UNCHANGED <<listed, right, timer, typed, erased>>
      BY <1>2 DEF OnIncorrect, Current
    <2>2. /\ PasswordsOK(passwords', listed)
          /\ \A d \in Calls : CallOK(calls[d], passwords')
          /\ DOMAIN passwords' = DOMAIN passwords
          /\ passwords'[k].generation = passwords[k].generation
      BY <2>1, ExpiryKeeps
    <2>3. passwords[k].generation \in Nat
      BY <2>1 DEF IInv, PasswordsOK, ViewersPassword
    <2>4. CallOK(Waits(c, passwords[k]), passwords')
      BY <1>0, <2>1, <2>2, <2>3, WaitsOK
    <2> QED
      BY <2>1, <2>2, <2>4, OneCall DEF IInv, RestOK
  <1>3. CASE OnIncorrectBefore(c)
    BY <1>3, RunDecryptKeeps DEF OnIncorrectBefore, IInv, RestOK
  <1> QED
    BY <1>1, <1>2, <1>3 DEF Answer

-----------------------------------------------------------------------------

LEMMA InitOK == Init => IInv
  <1> SUFFICES ASSUME Init PROVE IInv
    OBVIOUS
  <1>1. RestOK
    <2>1. timer \in BOOLEAN
      BY Zenon DEF Init
    <2>2. typed \in 0..MaxTyped
      BY MaxTypedAssumption DEF Init
    <2> QED
      BY <2>1, <2>2 DEF Init, RestOK
  <1>2. DOMAIN passwords = {}
    BY DEF Init
  <1>3. PasswordsOK(passwords, listed)
    BY <1>2 DEF PasswordsOK
  <1>4. \A k \in Keys : CallOK(NoCall(k), passwords)
    BY DEF CallOK, NoCall, Call, Answers
  <1>5. AllCallsOK(calls, passwords)
    BY <1>4 DEF Init, AllCallsOK
  <1> QED
    BY <1>1, <1>3, <1>5 DEF IInv

LEMMA NextKeeps == IInv /\ [Next]_vars => IInv'
  <1> SUFFICES ASSUME IInv, [Next]_vars PROVE IInv'
    OBVIOUS
  <1>1. CASE UNCHANGED vars
    BY <1>1 DEF vars, IInv, RestOK, AllCallsOK, PasswordsOK
  <1>2. ASSUME NEW c \in Calls, Decrypt(c) \/ LibDecrypts(c) \/ Answer(c) PROVE IInv'
    BY <1>2, DecryptKeeps, LibDecryptsKeeps, AnswerKeeps
  <1>3. ASSUME NEW k \in Keys, NEW bytes \in Bytes, TypePassword(k, bytes) PROVE IInv'
    BY <1>3, TypePasswordKeeps
  <1>4. ASSUME NEW k \in Keys,
               ClearPassword(k) \/ KeyDeleted(k) \/ KeySaved(k) \/ Pass(k)
        PROVE  IInv'
    BY <1>4, ErasingKeeps, KeySavedKeeps, PassKeeps
  <1>5. CASE AllKeysDeleted \/ CheckPasswordsExpiration
    BY <1>5, ErasingKeeps
  <1>6. ASSUME NEW bytes \in Bytes, PasswordChanged(bytes) PROVE IInv'
    BY <1>6, PasswordChangedKeeps
  <1> QED
    BY <1>1, <1>2, <1>3, <1>4, <1>5, <1>6 DEF Next

LEMMA IInvHolds == Spec => []IInv
  BY InitOK, NextKeeps, PTL DEF Spec

\* The types of what Wallet remembers and of its decrypts.
THEOREM PasswordsTypeCorrect == Spec => []TypeOK
  BY IInvHolds, IInvImplies, PTL

\* Wallet remembers passwords of listed keys only, whatever answer of the
\* library comes after a key was deleted.
THEOREM ListedOnlyRemembered == Spec => []RemembersListedOnly
  BY IInvHolds, IInvImplies, PTL

\* Whoever waits for a password waits for one newer than the one remembered.
THEOREM NewerAlwaysAwaited == Spec => []WaitsForNewer
  BY IInvHolds, IInvImplies, PTL

-----------------------------------------------------------------------------
\* Who is asked.  While the library tries a password of a key, the one that is
\* remembered is the same, or of a later generation, or was erased meanwhile.

SentOfNow(call, p, gone) ==
    call.at = "out" =>
        \/ call.key \in gone
        \/ /\ call.key \in DOMAIN p
           /\ p[call.key].bytes # Empty
           /\ p[call.key].generation >= call.generation
           /\ p[call.key].generation = call.generation =>
                  p[call.key].bytes = call.bytes

AllOfNow == \A c \in Calls : SentOfNow(calls[c], passwords, erased)

\* What a step may do to the passwords: no generation goes back, and within one
\* the password stays.
NoneGoesBack(p, q) ==
    /\ DOMAIN p \subseteq DOMAIN q
    /\ \A k \in DOMAIN p :
          /\ q[k].generation \in Nat
          /\ q[k].generation >= p[k].generation
          /\ q[k].generation = p[k].generation => q[k].bytes = p[k].bytes
          /\ p[k].bytes # Empty => q[k].bytes # Empty

LEMMA StaysOfNow ==
  ASSUME NEW call \in Call, NEW p, NEW q, NEW gone, NEW gone2,
         SentOfNow(call, p, gone), NoneGoesBack(p, q), gone \subseteq gone2,
         \A k \in DOMAIN p : p[k].generation \in Nat
  PROVE  SentOfNow(call, q, gone2)
  BY DEF SentOfNow, NoneGoesBack, Call

LEMMA OthersOfNow ==
  ASSUME NEW call, NEW p, NEW gone, call.at # "out"
  PROVE  SentOfNow(call, p, gone)
  BY DEF SentOfNow

LEMMA SentIsOfNow ==
  ASSUME NEW c \in Calls, calls[c] \in Call, NEW p, NEW q, NEW gone,
         calls[c].key \in DOMAIN q, q[calls[c].key].bytes = p.bytes,
         q[calls[c].key].generation = p.generation,
         p.bytes # Empty, p.generation \in Nat
  PROVE  SentOfNow(Sent(c, p), q, gone)
  BY DEF SentOfNow, Sent, Call

\* The step of one call, and of the passwords.
LEMMA OneStaysOfNow ==
  ASSUME IInv, AllOfNow, NEW c \in Calls, NEW call,
         calls' = [calls EXCEPT ![c] = call],
         NoneGoesBack(passwords, passwords'), erased' = erased,
         SentOfNow(call, passwords', erased')
  PROVE  AllOfNow'
  <1>1. /\ calls'[c] = call
        /\ \A d \in Calls \ {c} : calls'[d] = calls[d]
    BY DEF IInv, AllCallsOK
  <1>2. \A k \in DOMAIN passwords : passwords[k].generation \in Nat
    BY DEF IInv, PasswordsOK, ViewersPassword
  <1>3. ASSUME NEW d \in Calls \ {c} PROVE SentOfNow(calls'[d], passwords', erased')
    <2>1. calls[d] \in Call /\ SentOfNow(calls[d], passwords, erased)
      BY DEF IInv, AllCallsOK, CallOK, AllOfNow
    <2> QED
      BY <1>1, <1>2, <2>1, StaysOfNow
  <1> QED
    BY <1>1, <1>3 DEF AllOfNow

LEMMA SameGoesBackNowhere ==
  ASSUME IInv PROVE NoneGoesBack(passwords, passwords)
  BY DEF IInv, PasswordsOK, ViewersPassword, NoneGoesBack

LEMMA ExpiryGoesBackNowhere ==
  ASSUME IInv, NEW k \in DOMAIN passwords, NEW at,
         passwords' = [passwords EXCEPT ![k].expires = at]
  PROVE  NoneGoesBack(passwords, passwords')
  <1>1. \A j \in DOMAIN passwords : passwords[j] \in ViewersPassword
    BY DEF IInv, PasswordsOK
  <1>2. /\ DOMAIN passwords' = DOMAIN passwords
        /\ passwords'[k] = [passwords[k] EXCEPT !.expires = at]
        /\ \A j \in DOMAIN passwords : j # k => passwords'[j] = passwords[j]
    OBVIOUS
  <1>3. /\ passwords'[k].generation = passwords[k].generation
        /\ passwords'[k].bytes = passwords[k].bytes
    BY <1>1, <1>2 DEF ViewersPassword
  <1> QED
    BY <1>1, <1>2, <1>3 DEF NoneGoesBack, ViewersPassword

LEMMA RunDecryptOfNow ==
  ASSUME IInv, AllOfNow, NEW c \in Calls, calls[c].key \in listed,
         RunDecrypt(c), erased' = erased
  PROVE  AllOfNow'
  <1> DEFINE k == calls[c].key
             p == Entry(k)
             q == [p EXCEPT !.expires = IF p.bytes = Empty THEN "zero" ELSE @]
             call == IF p.bytes = Empty THEN Waits(c, p) ELSE Sent(c, p)
  <1>0. calls[c] \in Call /\ k \in Keys
    BY DEF IInv, AllCallsOK, CallOK, RestOK
  <1>1. p \in ViewersPassword /\ (k \in DOMAIN passwords => p = passwords[k])
    BY <1>0, EntryOK
  <1>2. q \in ViewersPassword /\ q.generation = p.generation /\ q.bytes = p.bytes
    <2> HIDE DEF p
    <2> QED BY <1>1 DEF ViewersPassword
  <1>3. passwords' = With(k, q) /\ calls' = [calls EXCEPT ![c] = call]
    BY DEF RunDecrypt
  <1>4. Waits(c, p).at = "waiting"
    BY <1>0 DEF Waits, Call
  <1> HIDE DEF p, q
  <1>5. /\ DOMAIN passwords' = DOMAIN passwords \cup {k}
        /\ passwords'[k] = q
        /\ \A j \in DOMAIN passwords : j # k => passwords'[j] = passwords[j]
    BY <1>2, <1>3, WithOK
  <1>6. NoneGoesBack(passwords, passwords')
    <2>1. \A j \in DOMAIN passwords : passwords[j] \in ViewersPassword
      BY DEF IInv, PasswordsOK
    <2> QED
      BY <2>1, <1>1, <1>2, <1>5 DEF NoneGoesBack, ViewersPassword
  <1>7. SentOfNow(call, passwords', erased')
    <2>1. CASE p.bytes = Empty
      BY <2>1, <1>4, OthersOfNow
    <2>2. CASE p.bytes # Empty
      <3>1. p.generation \in Nat
        BY <1>1 DEF ViewersPassword
      <3>2. SentOfNow(Sent(c, p), passwords', erased')
        BY <2>2, <3>1, <1>0, <1>2, <1>5, SentIsOfNow
      <3> QED
        BY <2>2, <3>2
    <2> QED
      BY <2>1, <2>2
  <1> HIDE DEF call
  <1> QED
    BY <1>3, <1>6, <1>7, OneStaysOfNow

LEMMA EraseOfNow ==
  ASSUME IInv, AllOfNow, NEW S \in SUBSET Keys, Erase(S)
  PROVE  AllOfNow'
  <1>1. /\ DOMAIN passwords' = DOMAIN passwords \ S
        /\ \A j \in DOMAIN passwords' : passwords'[j] = passwords[j]
        /\ erased' = erased \cup {k \in S : Out(k) # {}}
    BY DEF Erase, Without, Restrict
  <1>2. ASSUME NEW c \in Calls PROVE SentOfNow(calls'[c], passwords', erased')
    <2>1. calls[c] \in Call /\ SentOfNow(calls[c], passwords, erased)
      BY DEF IInv, AllCallsOK, CallOK, AllOfNow
    <2>2. CASE c \in UNION {Waiting(k) : k \in S}
      <3>1. calls'[c] = [NoCall(calls[c].key) EXCEPT !.at = "dropped"]
        BY <2>2 DEF Erase
      <3>2. calls'[c].at # "out"
        BY <3>1 DEF NoCall
      <3> QED
        BY <3>2, OthersOfNow
    <2>3. CASE c \notin UNION {Waiting(k) : k \in S}
      <3>1. calls'[c] = calls[c]
        BY <2>3 DEF Erase
      <3>2. calls[c].at = "out" /\ calls[c].key \in S => calls[c].key \in erased'
        BY <1>1 DEF Out
      <3> QED
        BY <3>1, <3>2, <2>1, <1>1 DEF SentOfNow
    <2> QED
      BY <2>2, <2>3
  <1> QED
    BY <1>2 DEF AllOfNow

LEMMA TypePasswordOfNow ==
  ASSUME IInv, AllOfNow, NEW k \in Keys, NEW bytes \in Bytes, TypePassword(k, bytes)
  PROVE  AllOfNow'
  <1> DEFINE p == [Entry(k) EXCEPT !.bytes = bytes, !.generation = @ + 1]
  <1>1. p \in ViewersPassword /\ p.bytes = bytes /\ p.generation \in Nat
    BY EntryOK, Retyped
  <1>1a. p.generation = Entry(k).generation + 1
    BY EntryOK DEF ViewersPassword
  <1>2. /\ k \in listed
        /\ passwords' = With(k, p)
        /\ calls' = [c \in Calls |->
                       IF c \in Waiting(k) THEN Sent(c, p) ELSE calls[c]]
        /\ erased' = erased
    BY DEF TypePassword, UpdateViewersPassword
  <1> HIDE DEF p
  <1>3. /\ DOMAIN passwords' = DOMAIN passwords \cup {k}
        /\ passwords'[k] = p
        /\ \A j \in DOMAIN passwords : j # k => passwords'[j] = passwords[j]
    BY <1>1, <1>2, WithOK
  <1>4. \A j \in DOMAIN passwords : passwords[j] \in ViewersPassword
    BY DEF IInv, PasswordsOK
  <1>5. NoneGoesBack(passwords, passwords')
    <2>1. k \in DOMAIN passwords => Entry(k) = passwords[k]
      BY EntryOK
    <2> QED
      BY <2>1, <1>1, <1>1a, <1>3, <1>4, EmptyAssumption DEF NoneGoesBack, ViewersPassword
  <1>6. ASSUME NEW c \in Calls PROVE SentOfNow(calls'[c], passwords', erased')
    <2>1. calls[c] \in Call /\ SentOfNow(calls[c], passwords, erased)
      BY DEF IInv, AllCallsOK, CallOK, AllOfNow
    <2>2. CASE c \in Waiting(k)
      <3>1. calls'[c] = Sent(c, p) /\ calls[c].key = k
        BY <1>2, <2>2 DEF Waiting
      <3> QED
        BY <3>1, <2>1, <1>1, <1>3, EmptyAssumption, SentIsOfNow
    <2>3. CASE c \notin Waiting(k)
      <3>1. calls'[c] = calls[c]
        BY <1>2, <2>3
      <3>2. \A j \in DOMAIN passwords : passwords[j].generation \in Nat
        BY <1>4 DEF ViewersPassword
      <3> QED
        BY <3>1, <3>2, <2>1, <1>2, <1>5, StaysOfNow
    <2> QED
      BY <2>2, <2>3
  <1> QED
    BY <1>6 DEF AllOfNow

LEMMA PasswordChangedOfNow ==
  ASSUME IInv, AllOfNow, NEW bytes \in Bytes, PasswordChanged(bytes)
  PROVE  AllOfNow'
  <1> DEFINE new == [k \in DOMAIN passwords |->
                       [passwords[k] EXCEPT !.bytes = bytes, !.generation = @ + 1]]
  <1>1. /\ passwords' = new
        /\ calls' = [c \in Calls |->
                       IF calls[c].at = "waiting" /\ calls[c].key \in DOMAIN new
                         THEN Sent(c, new[calls[c].key]) ELSE calls[c]]
        /\ erased' = erased
    BY DEF PasswordChanged
  <1>2. \A k \in DOMAIN passwords : passwords[k] \in ViewersPassword
    BY DEF IInv, PasswordsOK
  <1>3. /\ DOMAIN new = DOMAIN passwords
        /\ \A k \in DOMAIN passwords : /\ new[k].bytes = bytes
                                       /\ new[k].generation \in Nat
                                       /\ new[k].generation = passwords[k].generation + 1
    <2>1. \A k \in DOMAIN passwords : new[k].generation = passwords[k].generation + 1
      BY <1>2 DEF ViewersPassword
    <2> QED
      BY <1>2, <2>1, Retyped
  <1> HIDE DEF new
  <1>4. NoneGoesBack(passwords, passwords')
    BY <1>1, <1>2, <1>3, EmptyAssumption DEF NoneGoesBack, ViewersPassword
  <1>5. ASSUME NEW c \in Calls PROVE SentOfNow(calls'[c], passwords', erased')
    <2>1. calls[c] \in Call /\ SentOfNow(calls[c], passwords, erased)
      BY DEF IInv, AllCallsOK, CallOK, AllOfNow
    <2>2. CASE calls[c].at = "waiting" /\ calls[c].key \in DOMAIN passwords
      <3>1. calls'[c] = Sent(c, new[calls[c].key])
        BY <1>1, <1>3, <2>2
      <3> QED
        BY <3>1, <2>1, <2>2, <1>1, <1>3, EmptyAssumption, SentIsOfNow
    <2>3. CASE ~ (calls[c].at = "waiting" /\ calls[c].key \in DOMAIN passwords)
      <3>1. calls'[c] = calls[c]
        BY <1>1, <1>3, <2>3
      <3>2. \A j \in DOMAIN passwords : passwords[j].generation \in Nat
        BY <1>2 DEF ViewersPassword
      <3> QED
        BY <3>1, <3>2, <2>1, <1>1, <1>4, StaysOfNow
    <2> QED
      BY <2>2, <2>3
  <1> QED
    BY <1>5 DEF AllOfNow

LEMMA AnswerOfNow ==
  ASSUME IInv, AllOfNow, NEW c \in Calls, Answer(c)
  PROVE  AllOfNow'
  <1>0. calls[c] \in Call
    BY DEF IInv, AllCallsOK, CallOK
  <1>1. CASE OnDecrypted(c) \/ OnIncorrectDeleted(c)
    <2>1. /\ NotifyPasswordGood(calls[c].key)
          /\ calls' = [calls EXCEPT ![c] = Answered(c)]
          /\ erased' = erased
      BY <1>1 DEF OnDecrypted, OnIncorrectDeleted
    <2>2. Answered(c).at # "out"
      BY DEF Answered, NoCall
    <2>3. NoneGoesBack(passwords, passwords')
      BY <2>1, ExpiryGoesBackNowhere, SameGoesBackNowhere DEF NotifyPasswordGood
    <2> QED
      BY <2>1, <2>2, <2>3, OthersOfNow, OneStaysOfNow
  <1>2. CASE OnIncorrect(c)
    <2> DEFINE k == calls[c].key
    <2>1. /\ k \in DOMAIN passwords
          /\ passwords' = [passwords EXCEPT ![k].expires = "zero"]
          /\ calls' = [calls EXCEPT ![c] = Waits(c, passwords[k])]
          /\ erased' = erased
      BY <1>2 DEF OnIncorrect, Current
    <2>2. Waits(c, passwords[k]).at # "out"
      BY <1>0 DEF Waits, Call
    <2>3. NoneGoesBack(passwords, passwords')
      BY <2>1, ExpiryGoesBackNowhere
    <2> QED
      BY <2>1, <2>2, <2>3, OthersOfNow, OneStaysOfNow
  <1>3. CASE OnIncorrectBefore(c)
    BY <1>3, RunDecryptOfNow DEF OnIncorrectBefore
  <1> QED
    BY <1>1, <1>2, <1>3 DEF Answer

LEMMA LibDecryptsOfNow ==
  ASSUME IInv, AllOfNow, NEW c \in Calls, LibDecrypts(c)
  PROVE  AllOfNow'
  <1>1. PICK answer \in Answers : calls' = [calls EXCEPT ![c].answer = answer]
    BY DEF LibDecrypts, Answers
  <1> DEFINE call == [calls[c] EXCEPT !.answer = answer]
  <1>2. calls[c] \in Call /\ SentOfNow(calls[c], passwords, erased)
    BY DEF IInv, AllCallsOK, CallOK, AllOfNow
  <1>3. SentOfNow(call, passwords, erased)
    BY <1>2 DEF SentOfNow, Call
  <1>4. passwords' = passwords /\ erased' = erased
    BY DEF LibDecrypts
  <1>5. calls' = [calls EXCEPT ![c] = call]
    BY <1>1
  <1> HIDE DEF call
  <1> QED
    BY <1>3, <1>4, <1>5, SameGoesBackNowhere, OneStaysOfNow

LEMMA NextOfNow == IInv /\ AllOfNow /\ [Next]_vars => AllOfNow'
  <1> SUFFICES ASSUME IInv, AllOfNow, [Next]_vars PROVE AllOfNow'
    OBVIOUS
  <1>1. CASE UNCHANGED vars
    BY <1>1 DEF vars, AllOfNow
  <1>2. ASSUME NEW c \in Calls, Decrypt(c) \/ LibDecrypts(c) \/ Answer(c)
        PROVE  AllOfNow'
    BY <1>2, RunDecryptOfNow, LibDecryptsOfNow, AnswerOfNow DEF Decrypt
  <1>3. ASSUME NEW k \in Keys, NEW bytes \in Bytes, TypePassword(k, bytes)
        PROVE  AllOfNow'
    BY <1>3, TypePasswordOfNow
  <1>4. ASSUME NEW k \in Keys, ClearPassword(k) \/ KeyDeleted(k) PROVE AllOfNow'
    BY <1>4, EraseOfNow DEF ClearPassword, KeyDeleted
  <1>5. ASSUME NEW k \in Keys, KeySaved(k) PROVE AllOfNow'
    BY <1>5 DEF KeySaved, AllOfNow
  <1>6. ASSUME NEW k \in Keys, Pass(k) PROVE AllOfNow'
    <2>1. /\ k \in DOMAIN passwords
          /\ passwords' = [passwords EXCEPT ![k].expires = "passed"]
          /\ calls' = calls /\ erased' = erased
      BY <1>6 DEF Pass
    <2>2. NoneGoesBack(passwords, passwords')
      BY <2>1, ExpiryGoesBackNowhere
    <2>3. \A j \in DOMAIN passwords : passwords[j].generation \in Nat
      BY DEF IInv, PasswordsOK, ViewersPassword
    <2>4. \A c \in Calls : calls[c] \in Call
      BY DEF IInv, AllCallsOK, CallOK
    <2> QED
      BY <2>1, <2>2, <2>3, <2>4, StaysOfNow DEF AllOfNow
  <1>7. CASE AllKeysDeleted
    BY <1>7, EraseOfNow DEF AllKeysDeleted
  <1>8. CASE CheckPasswordsExpiration
    <2>1. Expired \in SUBSET Keys
      BY DEF Expired, IInv, PasswordsOK, RestOK
    <2> QED
      BY <1>8, <2>1, EraseOfNow DEF CheckPasswordsExpiration
  <1>9. ASSUME NEW bytes \in Bytes, PasswordChanged(bytes) PROVE AllOfNow'
    BY <1>9, PasswordChangedOfNow
  <1> QED
    BY <1>1, <1>2, <1>3, <1>4, <1>5, <1>6, <1>7, <1>8, <1>9 DEF Next

\* What PromptIsTrue says of one call.
AskedTruly(c) ==
    calls[c].at = "out" /\ calls'[c].at = "waiting" =>
        \/ calls[c].key \in erased
        \/ passwords[calls[c].key].bytes = calls[c].bytes

LEMMA StepAsksTruly ==
  ASSUME IInv, AllOfNow, [Next]_vars, NEW c \in Calls
  PROVE  AskedTruly(c)
  <1> SUFFICES ASSUME calls[c].at = "out", calls'[c].at = "waiting"
               PROVE  \/ calls[c].key \in erased
                      \/ passwords[calls[c].key].bytes = calls[c].bytes
    BY DEF AskedTruly
  <1>0. calls[c] \in Call /\ SentOfNow(calls[c], passwords, erased)
    BY DEF IInv, AllCallsOK, CallOK, AllOfNow
  <1>1. CASE OnIncorrect(c)
    <2>1. passwords[calls[c].key].generation = calls[c].generation
      BY <1>1 DEF OnIncorrect, Current
    <2> QED
      BY <1>0, <2>1 DEF SentOfNow
  <1>2. CASE RunDecrypt(c)
    <2> DEFINE k == calls[c].key
               p == Entry(k)
    <2>1. calls'[c] = IF p.bytes = Empty THEN Waits(c, p) ELSE Sent(c, p)
      BY <1>2 DEF RunDecrypt, IInv, AllCallsOK
    <2>2. Sent(c, p).at = "out"
      BY <1>0 DEF Sent, Call
    <2>3. Entry(k).bytes = Empty
      <3> HIDE DEF p
      <3>1. p.bytes = Empty
        BY <2>1, <2>2
      <3> QED
        BY <3>1 DEF p
    <2>4. k \in Keys
      BY <1>0 DEF Call
    <2> QED
      BY <1>0, <2>3, <2>4, EntryOK DEF SentOfNow
  <1>3. CASE calls'[c] = calls[c]
    BY <1>3
  <1>5. CASE calls'[c].at \in {"answered", "dropped", "out"}
    BY <1>5
  <1>6. CASE UNCHANGED vars
    BY <1>6 DEF vars
  <1>7. ASSUME NEW d \in Calls, Decrypt(d) \/ LibDecrypts(d) \/ Answer(d)
        PROVE  calls'[c] = calls[c] \/ d = c
    <2>1. \E call : calls' = [calls EXCEPT ![d] = call]
      <3>1. CASE Decrypt(d) \/ OnIncorrectBefore(d)
        BY <3>1 DEF Decrypt, OnIncorrectBefore, RunDecrypt
      <3>2. CASE LibDecrypts(d)
        BY <3>2 DEF LibDecrypts
      <3>3. CASE OnDecrypted(d) \/ OnIncorrectDeleted(d) \/ OnIncorrect(d)
        BY <3>3 DEF OnDecrypted, OnIncorrectDeleted, OnIncorrect
      <3> QED
        BY <1>7, <3>1, <3>2, <3>3 DEF Answer
    <2> QED
      BY <2>1 DEF IInv, AllCallsOK
  <1>8. ASSUME Decrypt(c) \/ LibDecrypts(c) \/ Answer(c)
        PROVE  \/ OnIncorrect(c) \/ RunDecrypt(c)
               \/ calls'[c].at \in {"answered", "out"}
    <2>1. ASSUME LibDecrypts(c) PROVE calls'[c].at = "out"
      <3>1. PICK answer : calls' = [calls EXCEPT ![c].answer = answer]
        BY <2>1 DEF LibDecrypts
      <3> QED
        BY <3>1, <1>0 DEF IInv, AllCallsOK, Call
    <2>2. ASSUME OnDecrypted(c) \/ OnIncorrectDeleted(c) PROVE calls'[c].at = "answered"
      BY <2>2 DEF OnDecrypted, OnIncorrectDeleted, Answered, NoCall, IInv, AllCallsOK
    <2> QED
      BY <1>8, <2>1, <2>2 DEF Decrypt, Answer, OnIncorrectBefore
  <1>9. ASSUME NEW S, Erase(S) PROVE calls'[c] = calls[c] \/ calls'[c].at = "dropped"
    BY <1>9 DEF Erase, NoCall
  <1>10. CASE \E k \in Keys : ClearPassword(k) \/ KeyDeleted(k)
    BY <1>10, <1>9, <1>3, <1>5 DEF ClearPassword, KeyDeleted
  <1>11. CASE AllKeysDeleted \/ CheckPasswordsExpiration
    BY <1>11, <1>9, <1>3, <1>5 DEF AllKeysDeleted, CheckPasswordsExpiration
  <1>12. CASE \E k \in Keys : KeySaved(k) \/ Pass(k)
    BY <1>12, <1>3 DEF KeySaved, Pass
  <1>13. CASE \E k \in Keys, bytes \in Bytes : TypePassword(k, bytes)
    BY <1>13 DEF TypePassword, UpdateViewersPassword, Waiting
  <1>14. CASE \E bytes \in Bytes : PasswordChanged(bytes)
    BY <1>14 DEF PasswordChanged
  <1> QED
    BY <1>1, <1>2, <1>3, <1>5, <1>6, <1>7, <1>8, <1>10, <1>11, <1>12, <1>13, <1>14
    DEF Next

\* The user is asked for another password only when the one remembered is the
\* one that failed, or the one that was tried had been erased.
THEOREM PromptIsAlwaysTrue == Spec => PromptIsTrue
  <1>1. Init => AllOfNow
    BY DEF Init, AllOfNow, SentOfNow, NoCall
  <1>2. IInv /\ AllOfNow /\ [Next]_vars =>
            [\A c \in Calls :
                calls[c].at = "out" /\ calls'[c].at = "waiting" =>
                    LET k == calls[c].key IN
                      \/ k \in erased
                      \/ passwords[k].bytes = calls[c].bytes]_vars
    BY StepAsksTruly DEF AskedTruly
  <1> QED
    BY <1>1, <1>2, IInvHolds, NextOfNow, PTL DEF Spec, PromptIsTrue

=============================================================================
