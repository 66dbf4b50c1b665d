----------------------------- MODULE HttpCookie -----------------------------
(***************************************************************************)
(* HttpCookie of workflow-http and Context::SetCookie: a cookie is parsed  *)
(* from a text and written, as a text again, into a Set-Cookie header of   *)
(* the response.  Parse is the only way to fill a cookie.                  *)
(*                                                                         *)
(* A text is the sequence of its items between semicolons, [key, val] with *)
(* val None for an item without equal sign; trimming and the case of       *)
(* letters are left out.                                                   *)
(***************************************************************************)
EXTENDS Integers, SequencesExt

CONSTANTS
  Vals,       \* the values of items
  MaxItems,   \* bound: the length of a text
  None

\* The keys with a meaning of their own, besides Secure and HttpOnly.
Attributes == {"Domain", "Path", "Expires", "Max-Age", "SameSite", "Priority"}

\* The items that texts consist of; "id" stands for any other key.
Items ==
  [key : Attributes \cup {"id"}, val : Vals]
  \cup [key : {"Secure", "HttpOnly"}, val : {None}]

VARIABLES
  cookie,
  header,     \* the Set-Cookie headers of the response
  setNamed    \* history: SetCookie was called with a cookie that has a name

vars == <<cookie, header, setNamed>>

\* Reset.  An attribute that is not set is None: an empty string, a maxAge
\* of 0, Default or NotSet.
Blank ==
  [name |-> None, value |-> None, kv |-> <<>>, secure |-> FALSE,
   httponly |-> FALSE, attr |-> [a \in Attributes |-> None]]

Init == cookie = Blank /\ header = <<>> /\ setNamed = FALSE

\* One turn of the loop of Parse.
ParseItem(ck, item) ==
  IF item.val = None
  THEN [ck EXCEPT !.secure = @ \/ item.key = "Secure",
                  !.httponly = @ \/ item.key = "HttpOnly"]
  ELSE IF item.key \in Attributes
  THEN [ck EXCEPT !.attr[item.key] = item.val]
  ELSE [ck EXCEPT !.name = IF @ = None THEN item.key ELSE @,
                  !.value = IF ck.name = None THEN item.val ELSE @,
                  !.kv = (item.key :> item.val) @@ @]

Parse(text) ==
  /\ cookie' = FoldLeft(ParseItem, Blank, text)
  /\ UNCHANGED <<header, setNamed>>

\* The items of the attributes that are set; Expires only without a maxAge.
Written(ck, keys) ==
  FlattenSeq([i \in DOMAIN keys |->
    IF \/ ck.attr[keys[i]] = None
       \/ keys[i] = "Expires" /\ ck.attr["Max-Age"] # None
    THEN <<>> ELSE <<[key |-> keys[i], val |-> ck.attr[keys[i]]]>>])

Flag(on, key) == IF on THEN <<[key |-> key, val |-> None]>> ELSE <<>>

Named(ck) == ck.name # None \/ ck.kv # <<>>

\* The text of a cookie: none at all if it has a name or other pairs, so that
\* what follows is written for a cookie without them.
String(ck) ==
  IF Named(ck) THEN <<>>
  ELSE Written(ck, <<"Domain", "Path", "Max-Age", "Expires", "SameSite", "Priority">>)
       \o Flag(ck.secure, "Secure") \o Flag(ck.httponly, "HttpOnly")

SetCookie ==
  /\ header' = IF String(cookie) = <<>> THEN header ELSE Append(header, String(cookie))
  /\ setNamed' = (setNamed \/ Named(cookie))
  /\ UNCHANGED cookie

Next ==
  \/ \E n \in 1 .. MaxItems : \E text \in [1 .. n -> Items] : Parse(text)
  \/ Len(header) < MaxItems /\ SetCookie

Spec == Init /\ [][Next]_vars

-----------------------------------------------------------------------------
(* What the comments at SetCookie say: it adds a Set-Cookie header for a   *)
(* cookie that has a name, and may drop the others.                        *)
SetCookieAdds == setNamed => header # <<>>
=============================================================================
