--------------------------- MODULE InstanceNames ---------------------------
(***************************************************************************)
(* The names instances get from get_instance_name(), and what the cleaners *)
(* read back from them: list_instances() takes the names LXD shows and     *)
(* makes LXDInstances of them, and the configure hook looks for the tag of *)
(* the current bases in them.                                              *)
(*                                                                         *)
(* A character is one of a few classes; the letters of "base-v" and of     *)
(* "base-instance" are told from the others.  The SHA-1 of a name is       *)
(* taken to be unlike that of any other name, and is kept as the name      *)
(* itself beside the characters before it.                                 *)
(***************************************************************************)
EXTENDS Integers, Sequences, FiniteSets, SequencesExt

CONSTANTS
  MaxLength,    \* MAX_INSTANCE_NAME_LENGTH, 63
  KeptLength,   \* how much of a name stands before the hash, 40
  HashLength    \* how much of the hash is taken, 20

\* A cut name is no longer than a name may be.
ASSUME LengthAssumption ==
  /\ {MaxLength, KeptLength, HashLength} \subseteq Nat \ {0}
  /\ KeptLength + 1 + HashLength <= MaxLength

LetterClass == {"a", "t", "s"}
DigitClass == {"7", "0"}
Chars == LetterClass \cup DigitClass \cup {"-", "."}

-----------------------------------------------------------------------------
(* get_instance_name *)

\* A name: its characters and, of one that was cut, what the hash stands for.
Plain(text) == [text |-> text, hash |-> <<>>]

Size(n) == Len(n.text) + IF n.hash = <<>> THEN 0 ELSE 1 + HashLength

\* Only letters, digits and hyphens remain.
ValidChars(text) ==
  LET kept[k \in 0 .. Len(text)] ==
        IF k = 0 THEN <<>>
        ELSE IF text[k] = "." THEN kept[k - 1] ELSE Append(kept[k - 1], text[k])
  IN  kept[Len(text)]

\* A mutant: a hyphen at the end stays.
Trim_StartOnly(text, hashed) ==
  LET starts == {i \in DOMAIN text : text[i] \in LetterClass}
  IN  IF starts = {} THEN <<>> ELSE SubSeq(text, Min(starts), Len(text))

\* No digit or hyphen at the beginning, no hyphen at the end.
Trim(text, hashed) ==
  LET starts == {i \in DOMAIN text : text[i] \in LetterClass}
      ends == {i \in DOMAIN text : hashed \/ text[i] # "-"}
  IN  IF starts = {} THEN <<>> ELSE SubSeq(text, Min(starts), Max(ends))

ValidName(n) == [n EXCEPT !.text = Trim(ValidChars(n.text), n.hash # <<>>)]

\* Without a letter there is no name; the error is not modelled further.
HasName(n) == ValidName(n).text # <<>>

\* A mutant: the hash of what is kept anyway.
Hash_OfKept(n) ==
  LET valid == ValidName(n).text
  IN  SubSeq(valid, 1, Min({KeptLength, Len(valid)})) \o <<"#">>

Hash(n) == n.text \o <<"#">> \o n.hash

GetInstanceName(n) ==
  LET valid == ValidName(n)
  IN  IF n = valid /\ Size(n) <= MaxLength
      THEN n
      ELSE [text |-> SubSeq(valid.text, 1, Min({KeptLength, Len(valid.text)})),
            hash |-> Hash(n)]

-----------------------------------------------------------------------------
(* Names of bases *)

Letters(k, c) == [i \in 1..k |-> c]

\* "base-instance", which is the 13 characters every base begins with.
BaseStart == Letters(4, "s") \o <<"-">> \o Letters(8, "s")

\* Base.compatibility_tag, "base-v7", and the "base-v70" that an application
\* gets when it appends ".0" and the dot is dropped.
Tag == Letters(4, "t") \o <<"-", "t", "7">>
DottedTag == Tag \o <<".", "0">>
OldTag == Letters(4, "t") \o <<"-", "t", "0">>

\* base-instance-<app>-buildd-<tag>-<remote>-<image>
FormulateBaseInstanceName(app, tag, rest) ==
  Plain(BaseStart \o <<"-">> \o Letters(app, "a") \o <<"-">> \o Letters(6, "a") \o <<"-">>
        \o tag \o <<"-">> \o Letters(rest, "a"))

\* name.startswith("base-instance")
IsBaseInstance(n) == IsPrefix(BaseStart, n.text)

\* A mutant: the hyphen after the tag has to be among the kept characters.
IsCurrentBaseInstance_Kept(n) ==
  LET mark == <<"-">> \o Tag \o <<"-">>
  IN  /\ IsBaseInstance(n)
      /\ \E i \in Len(BaseStart) + 1 .. Len(n.text) - Len(mark) + 1 :
            SubSeq(n.text, i, i + Len(mark) - 1) = mark

\* _CURRENT_COMPATIBILITY_TAG_REGEX: ^base-instance.*-base-v7-.*  The hyphen
\* between the kept characters and the hash counts.
IsCurrentBaseInstance(n) ==
  LET shown == IF n.hash = <<>> THEN n.text ELSE Append(n.text, "-")
      mark == <<"-">> \o Tag \o <<"-">>
  IN  /\ IsBaseInstance(n)
      /\ \E i \in Len(BaseStart) + 1 .. Len(shown) - Len(mark) + 1 :
            SubSeq(shown, i, i + Len(mark) - 1) = mark

-----------------------------------------------------------------------------
(* What holds of names around the lengths at which something changes *)

Edges(lengths) == UNION {[1..k -> {"a", "7", "-", "."}] : k \in lengths}
Middles == {0, KeptLength - 1, KeptLength, MaxLength - 2, MaxLength - 1}

Inputs ==
  {n \in {Plain(l \o Letters(k, "a") \o r) : l \in Edges(0..1), k \in Middles, r \in Edges(0..2)} :
      HasName(n)}

\* The convention of get_instance_name's docstring.
IsName(n) ==
  /\ Size(n) \in 1..MaxLength
  /\ n.text[1] \in LetterClass
  /\ \A i \in DOMAIN n.text : n.text[i] # "."
  /\ n.hash = <<>> => Last(n.text) # "-"

AllAreNames == \A n \in Inputs : IsName(GetInstanceName(n))

AllAreTold ==
  LET names == {GetInstanceName(n) : n \in Inputs}
  IN  /\ \A m \in names : GetInstanceName(m) = m
      /\ Cardinality(names) = Cardinality(Inputs)

\* The longest application name that leaves the whole tag, which ends 29
\* characters after it began, in the part that is kept: eleven letters.
LongestApp == KeptLength - 29

CurrentIsTold ==
  \A app \in 1 .. LongestApp, rest \in {10, 30, 60} :
    LET current == GetInstanceName(FormulateBaseInstanceName(app, Tag, rest))
        old == GetInstanceName(FormulateBaseInstanceName(app, OldTag, rest))
    IN  /\ IsBaseInstance(current) /\ IsBaseInstance(old)
        /\ IsCurrentBaseInstance(current) /\ ~IsCurrentBaseInstance(old)
=============================================================================
