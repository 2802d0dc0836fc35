------------------------------ MODULE ProfileDoc ------------------------------
(***************************************************************************)
(* How a command is taken from a profile: a JSON document that is searched *)
(* as text, never parsed (profile.c 4-55, 120-153, json_util.c 60-116).    *)
(*                                                                         *)
(* A document is the sequence of its tokens.  A quoted name is found where *)
(* it stands first, be it a key or a value, at any depth.  Quotes inside a *)
(* string are escaped and cannot match; the braces of templates are left   *)
(* out, as no document here has one between a name and its object.  A      *)
(* value may be written with escapes that are not understood, a key is not. *)
(***************************************************************************)
EXTENDS Integers, FiniteSets, SequencesExt

Str(s)  == [kind |-> "string", text |-> s]
Mark(m) == [kind |-> "mark", text |-> m]
Number(n) == [kind |-> "number", text |-> n]

\* A string in which a character is written \b, \f or \uXXXX: what it says, and what
\* is left of it without the backslash.
Escaped(s, left) == [kind |-> "escaped", text |-> s, left |-> left]
Null    == [kind |-> "word", text |-> "null"]

None == "none"     \* NULL: no such string

Token == [kind : {"string", "mark", "number", "word"}, text : STRING]
         \cup [kind : {"escaped"}, text : STRING, left : STRING]

IsDocument(doc) == doc \in Seq(Token)

-----------------------------------------------------------------------------
(* json_util.c.                                                            *)

\* Where the value of the first "key" is, 0 if no colon follows it.
FindKeyValue(doc, key) ==
  LET i == SelectInSeq(doc, LAMBDA t : t = Str(key))
  IN IF i # 0 /\ i + 1 < Len(doc) /\ doc[i + 1] = Mark(":") THEN i + 2 ELSE 0

\* Of an escape that is neither \n, \r nor \t the backslash is dropped, which is
\* right for quotes, slashes and backslashes alone.
StringOf(t) == IF t.kind = "string" THEN t.text ELSE IF t.kind = "escaped" THEN t.left ELSE None

GetString(doc, key) ==
  LET v == FindKeyValue(doc, key)
  IN IF v = 0 THEN None ELSE StringOf(doc[v])

\* atoi of what stands there: 0 for anything but a number.
GetInt(doc, key, fallback) ==
  LET v == FindKeyValue(doc, key)
  IN IF v = 0 THEN fallback ELSE IF doc[v].kind = "number" THEN doc[v].text ELSE "0"

-----------------------------------------------------------------------------
(* profile.c.                                                              *)

Depth(doc, a, b) == Cardinality({i \in a..b : doc[i] = Mark("{")})
                    - Cardinality({i \in a..b : doc[i] = Mark("}")})

\* The index of the brace that closes the one at a, 0 if none does.
BlockEnd(doc, a) == SelectInSubSeq([i \in DOMAIN doc |-> Depth(doc, a, i)], a, Len(doc), LAMBDA d : d = 0)

FindBlock_ToBrace(doc, name) ==
  LET i == SelectInSeq(doc, LAMBDA t : t = Str(name))
      a == IF i = 0 THEN 0 ELSE SelectInSubSeq(doc, i, Len(doc), LAMBDA t : t = Mark("{"))
  IN IF a = 0 THEN <<>> ELSE SubSeq(doc, a, SelectInSubSeq(doc, a, Len(doc), LAMBDA t : t = Mark("}")))

\* The object after the first "name", whatever stands between; <<>> if none.
FindBlock(doc, name) ==
  LET i == SelectInSeq(doc, LAMBDA t : t = Str(name))
      a == IF i = 0 THEN 0 ELSE SelectInSubSeq(doc, i, Len(doc), LAMBDA t : t = Mark("{"))
  IN IF a = 0 THEN <<>> ELSE SubSeq(doc, a, BlockEnd(doc, a))

CapabilityCommand(doc, cap, field) ==
  LET block == FindBlock(doc, cap)
      value == GetString(block, field)
  IN IF block = <<>> THEN None
     ELSE IF value = None /\ field = "discovery.command"
            THEN GetString(FindBlock(block, "discovery"), "command")
            ELSE value

CapabilityTtl(doc, cap, fallback) == GetInt(FindBlock(FindBlock(doc, cap), "discovery"), "cache_ttl_sec", fallback)

-----------------------------------------------------------------------------
(* What JSON says.                                                         *)

\* The value of a member of the object that is the document: its tokens.
Member(doc, key) ==
  LET at == {i \in 1..Len(doc) - 2 : doc[i] = Str(key) /\ doc[i + 1] = Mark(":") /\ Depth(doc, 1, i) = 1}
      i  == CHOOSE j \in at : \A k \in at : j <= k
  IN IF at = {} THEN <<>>
     ELSE IF doc[i + 2] = Mark("{") THEN SubSeq(doc, i + 2, BlockEnd(doc, i + 2))
     ELSE <<doc[i + 2]>>

Discovery(doc, cap) == Member(Member(Member(doc, "capabilities"), cap), "discovery")

Text(value) == IF Len(value) = 1 /\ value[1].kind \in {"string", "escaped"} THEN value[1].text ELSE None

OwnCommand(doc, cap, field) ==
  LET block == Member(Member(doc, "capabilities"), cap)
      own   == Text(Member(block, field))
  IN IF own = None /\ field = "discovery.command"
       THEN Text(Member(Discovery(doc, cap), "command"))
       ELSE own

OwnTtl(doc, cap, fallback) ==
  LET value == Member(Discovery(doc, cap), "cache_ttl_sec")
  IN IF value = <<>> THEN fallback ELSE IF value[1].kind = "number" THEN value[1].text ELSE "0"

Places(doc, name) == {i \in DOMAIN doc : doc[i] = Str(name)}

IsObject(value) == value # <<>> /\ value[1] = Mark("{")

\* A name stands once, if at all, in an object and its members' objects, and
\* then as the key of a member.
Once(object, name) ==
  Places(object, name) = {} \/ (Cardinality(Places(object, name)) = 1 /\ Member(object, name) # <<>>)

IsEscaped(value) == value # <<>> /\ value[1].kind = "escaped"

\* A capability is plain if its name stands in the document once, as the key of
\* an object, and so do the names looked for in that object, and the command is
\* written without the escapes that are not understood.
Plain(doc, cap, field) ==
  LET block     == Member(Member(doc, "capabilities"), cap)
      discovery == Discovery(doc, cap)
  IN /\ Cardinality(Places(doc, cap)) = 1 /\ IsObject(block)
     /\ Once(block, field) /\ ~IsEscaped(Member(block, field))
     /\ field = "discovery.command" =>
          /\ Once(block, "discovery") /\ (discovery = <<>> \/ IsObject(discovery))
          /\ Once(discovery, "command") /\ ~IsEscaped(Member(discovery, "command"))
          /\ Once(discovery, "cache_ttl_sec")
===============================================================================
