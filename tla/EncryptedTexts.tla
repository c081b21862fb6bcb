--------------------------- MODULE EncryptedTexts ---------------------------
(***************************************************************************)
(* details/ton_parse_state.cpp: the encrypted texts of transactions are    *)
(* collected for one request to the library, whose answer, in the same     *)
(* order, is put back in the messages.  A text depends on the bytes and on *)
(* who sent them.                                                          *)
(***************************************************************************)
EXTENDS Naturals, Sequences, SequencesExt

\* A message has bytes of an encrypted text, or none: <<>>.
IsEncrypted(message) == message.encrypted # <<>>

\* A list of anything.
IsList(l) == l \in Seq(ToSet(l))

Messages(transaction) == <<transaction.incoming>> \o transaction.outgoing
AllMessages(list) == FlattenSeq([i \in DOMAIN list |-> Messages(list[i])])

EncryptedText(message) == [bytes |-> message.encrypted, source |-> message.source]

\* Message by message, those that are encrypted.
CollectEncryptedTexts(list) ==
    LET all == AllMessages(list)
        collected[n \in 0..Len(all)] ==
            IF n = 0 THEN <<>>
            ELSE IF IsEncrypted(all[n])
              THEN Append(collected[n - 1], EncryptedText(all[n]))
              ELSE collected[n - 1]
    IN collected[Len(all)]

\* The texts of encrypted, as msg.decrypt answers them.
Texts(encrypted) ==
    [i \in DOMAIN encrypted |-> <<encrypted[i].bytes, encrypted[i].source>>]

\* The first encrypted text with the bytes of a message, whatever its source.
Place(encrypted, message) ==
    SelectInSeq(encrypted, LAMBDA e : e.bytes = message.encrypted)

\* Mutant of DecryptMessage: one text too early.
DecryptMessageBefore(message, encrypted, decrypted) ==
    LET i == Place(encrypted, message) IN
      IF i <= 1 THEN message
      ELSE [message EXCEPT !.text = decrypted[i - 1], !.decrypted = TRUE]

DecryptMessage(message, encrypted, decrypted) ==
    LET i == IF IsEncrypted(message) THEN Place(encrypted, message) ELSE 0 IN
      IF i = 0 THEN message
      ELSE [message EXCEPT !.text = decrypted[i], !.decrypted = TRUE]

AddDecryptedTexts(list, encrypted, decrypted) ==
    LET Decrypt(m) == DecryptMessage(m, encrypted, decrypted)
    IN [i \in DOMAIN list |->
          [list[i] EXCEPT !.incoming = Decrypt(@),
                          !.outgoing = [j \in DOMAIN @ |-> Decrypt(@[j])]]]

=============================================================================
