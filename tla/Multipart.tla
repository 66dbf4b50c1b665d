----------------------------- MODULE Multipart -----------------------------
(***************************************************************************)
(* The parser of multipart/form-data of workflow-http: the state machine   *)
(* of multipart_parser.c, which reads a body character by character and    *)
(* may be given it in pieces, and the callbacks of Multipart that build    *)
(* the form from the pieces of fields, values and data it reports.         *)
(*                                                                         *)
(* A body is a sequence of tokens: a character that the parser or the      *)
(* callbacks look at, or a run of letters that they only copy.             *)
(***************************************************************************)
EXTENDS Integers, SequencesExt

CONSTANTS
  Boundary,    \* the boundary as the request gives it
  Sent         \* [parts, lost]: the forms that are sent, and the token of
               \* the body that gets lost on the way, or 0

VARIABLES
  parts,       \* the form that is sent
  lost,        \* the token of its body that gets lost, or 0
  body,        \* the body that arrives
  pos,         \* the next token to read
  mark,        \* where the piece starts that is not reported yet
  state, index,
  user,        \* multipart_parser_userdata, without mp
  mp,          \* the form that is built: name -> Form
  failed       \* multipart_parser_execute has returned before the end

vars == <<parts, lost, body, pos, mark, state, index, user, mp, failed>>

-----------------------------------------------------------------------------
(* How a form is sent, as the comment in multipart.h shows it.             *)

multipart_boundary == <<"-", "-">> \o Boundary
boundary_length == Len(multipart_boundary)
CRLF == <<"CR", "LF">>

Quoted(s) == <<"Q">> \o s \o <<"Q">>

Disposition(p) ==
  <<"Content-Disposition", ":", " ", "form-data", ";", " ", "name", "=">>
  \o Quoted(p.name)
  \o (IF p.filename = <<>> THEN <<>>
      ELSE <<";", " ", "filename", "=">> \o Quoted(p.filename))
  \o CRLF

Type(p) ==
  IF p.type = <<>> THEN <<>> ELSE <<"Content-Type", ":">> \o p.type \o CRLF

PartText(p) ==
  multipart_boundary \o CRLF
  \o (IF p.typeFirst THEN Type(p) \o Disposition(p) ELSE Disposition(p) \o Type(p))
  \o CRLF \o p.content \o CRLF

Text(ps) == FlattenSeq([i \in DOMAIN ps |-> PartText(ps[i])]) \o multipart_boundary

BodyOf(ps) == Text(ps) \o <<"-", "-">> \o CRLF

\* A content cannot hold the line that ends it.
Sendable(p) ==
  LET end == CRLF \o multipart_boundary
      text == p.content \o end
  IN \A i \in 1 .. Len(p.content) : SubSeq(text, i, i + Len(end) - 1) # end

Empty == [headerField |-> <<>>, headerValue |-> <<>>, partData |-> <<>>,
          name |-> <<>>, filename |-> <<>>, contentType |-> <<>>]

Init ==
  /\ \E f \in Sent :
       /\ \A i \in DOMAIN f.parts : Sendable(f.parts[i])
       /\ parts = f.parts
       /\ lost = f.lost
       /\ body = IF f.lost = 0 THEN BodyOf(parts)
                 ELSE RemoveAt(BodyOf(parts), f.lost)
  /\ pos = 1
  /\ mark = 1
  /\ state = "s_start"
  /\ index = 0
  /\ user = Empty
  /\ mp = <<>>
  /\ failed = FALSE

-----------------------------------------------------------------------------
(* The callbacks, on the user data u.                                      *)

\* StringUtils::split.
Split(s, delim) ==
  LET cuts == <<0>> \o SetToSortSeq({i \in DOMAIN s : s[i] = delim}, <)
                    \o <<Len(s) + 1>>
  IN [i \in 1 .. Len(cuts) - 1 |-> SubSeq(s, cuts[i] + 1, cuts[i + 1] - 1)]

\* StringUtils::trim.
Trim(s, chars) ==
  LET kept == {i \in DOMAIN s : s[i] \notin chars}
  IN IF kept = {} THEN <<>> ELSE SubSeq(s, Min(kept), Max(kept))

\* StringUtils::trim_pairs for double quotes (Q) and single ones.
trim_pairs(s) ==
  IF s # <<>> /\ s[1] = s[Len(s)] /\ s[1] \in {"Q", "'"}
  THEN SubSeq(s, 2, Len(s) - 1) ELSE s

\* The value of the last item key=value of a header's value, or old if there
\* is none: an item with another number of equal signs is skipped.
Item(headerValue, key, old) ==
  LET items == Split(headerValue, ";")
      kv == [i \in DOMAIN items |-> Split(Trim(items[i], {" "}), "=")]
      found == {i \in DOMAIN kv : Len(kv[i]) = 2 /\ kv[i][1] = <<key>>}
  IN IF found = {} THEN old ELSE trim_pairs(kv[Max(found)][2])

handle_header(u) ==
  IF u.headerField = <<>> \/ u.headerValue = <<>> THEN u
  ELSE LET isDisposition == u.headerField = <<"Content-Disposition">>
           isType == u.headerField = <<"Content-Type">>
       IN [u EXCEPT
             !.name = IF isDisposition THEN Item(u.headerValue, "name", @) ELSE @,
             !.filename =
               IF isDisposition THEN Item(u.headerValue, "filename", @) ELSE @,
             !.contentType = IF isType THEN u.headerValue ELSE @,
             !.headerField = <<>>,
             !.headerValue = <<>>]

OnHeaderField(u, at) == [handle_header(u) EXCEPT !.headerField = @ \o at]

OnHeaderValue(u, at) == [u EXCEPT !.headerValue = @ \o at]

OnHeadersComplete(u) == handle_header(u)

OnPartData(u, at) == [u EXCEPT !.partData = @ \o at]

\* What handle_data leaves of the user data.
AfterPart(u) ==
  [u EXCEPT !.name = <<>>, !.filename = <<>>, !.partData = <<>>,
            !.contentType = <<>>]

\* The form after handle_data, which OnPartDataEnd calls: a part that has no
\* name is dropped.
FormAfter(u) ==
  IF u.name = <<>> THEN mp
  ELSE (u.name :> [content |-> u.partData, filename |-> u.filename,
                   type |-> u.contentType]) @@ mp

-----------------------------------------------------------------------------
(* multipart_parser_execute: each action is a case of its switch, for the  *)
(* token ch at pos; last says that a piece of the body ends with it, as one *)
(* does with the last token.                                               *)

ch == body[pos]

At(states) == pos <= Len(body) /\ ~failed /\ state \in states

\* Go on behind ch in state s with this index; what is not reported yet
\* starts at m, or with the next piece.
Read(s, i, m, last) ==
  /\ state' = s
  /\ index' = i
  /\ pos' = pos + 1
  /\ mark' = IF last THEN pos + 1 ELSE m
  /\ UNCHANGED <<parts, lost, body, failed>>

NoCallback == UNCHANGED <<user, mp>>

\* return i.
Refuse ==
  /\ failed' = TRUE
  /\ UNCHANGED <<parts, lost, body, pos, mark, state, index, user, mp>>

Report(u) == user' = u /\ UNCHANGED mp

StartBoundary(last) ==
  LET i == IF state = "s_start" THEN 0 ELSE index
      line == multipart_boundary \o CRLF
  IN
  /\ At({"s_start", "s_start_boundary"})
  /\ IF ch # line[i + 1] THEN Refuse
     ELSE /\ IF i = boundary_length + 1
             THEN Read("s_header_field_start", 0, mark, last)
             ELSE Read("s_start_boundary", i + 1, mark, last)
          /\ NoCallback

\* tolower(ch) is a letter or ch is a hyphen.
InName == ch \notin {":", " ", ";", "=", "Q", "'", "CR", "LF"}

HeaderField(last) ==
  LET m == IF state = "s_header_field_start" THEN pos ELSE mark IN
  /\ At({"s_header_field_start", "s_header_field"})
  /\ \/ /\ ch = "CR"
        /\ Read("s_headers_almost_done", index, m, last)
        /\ NoCallback
     \/ /\ ch = ":"
        /\ Read("s_header_value_start", index, m, last)
        /\ Report(OnHeaderField(user, SubSeq(body, m, pos - 1)))
     \/ /\ InName
        /\ Read("s_header_field", index, m, last)
        /\ IF last THEN Report(OnHeaderField(user, SubSeq(body, m, pos)))
           ELSE NoCallback
     \/ ch \notin {"CR", ":"} /\ ~InName /\ Refuse

HeaderValue(last) ==
  LET m == IF state = "s_header_value_start" THEN pos ELSE mark IN
  /\ At({"s_header_value_start", "s_header_value"})
  /\ IF state = "s_header_value_start" /\ ch = " "
     THEN Read(state, index, mark, last) /\ NoCallback
     ELSE IF ch = "CR"
     THEN /\ Read("s_header_value_almost_done", index, m, last)
          /\ Report(OnHeaderValue(user, SubSeq(body, m, pos - 1)))
     ELSE /\ Read("s_header_value", index, m, last)
          /\ IF last THEN Report(OnHeaderValue(user, SubSeq(body, m, pos)))
             ELSE NoCallback

\* The states in which a line feed must come, and the ones it leads to.
AfterLineFeed == [s_headers_almost_done |-> "s_part_data_start",
                  s_header_value_almost_done |-> "s_header_field_start",
                  s_part_data_end |-> "s_header_field_start"]

LineFeed(last) ==
  /\ At(DOMAIN AfterLineFeed)
  /\ IF ch # "LF" THEN Refuse
     ELSE Read(AfterLineFeed[state], index, mark, last) /\ NoCallback

\* The token ch in s_part_data, with user data u and what is not reported yet
\* starting at m.
Data(u, m, last) ==
  IF ch = "CR"
  THEN /\ Read("s_part_data_almost_boundary", index, pos, last)
       /\ Report(OnPartData(u, SubSeq(body, m, pos - 1)))
  ELSE /\ Read("s_part_data", index, m, last)
       /\ Report(IF last THEN OnPartData(u, SubSeq(body, m, pos)) ELSE u)

PartData(last) ==
  /\ At({"s_part_data_start", "s_part_data"})
  /\ IF state = "s_part_data_start"
     THEN Data(OnHeadersComplete(user), pos, last)
     ELSE Data(user, mark, last)

\* Mutant: the line feed of a line that is no boundary is forgotten.
LookbehindShort == <<"CR">> \o SubSeq(multipart_boundary, 1, index)

\* lookbehind: what was read since a carriage return that might have begun
\* the line of the boundary.
Lookbehind == CRLF \o SubSeq(multipart_boundary, 1, index)

\* When it did not, lookbehind is data and ch is read again as data.
AlmostBoundary(last) ==
  /\ At({"s_part_data_almost_boundary"})
  /\ IF ch = "LF"
     THEN Read("s_part_data_boundary", 0, mark, last) /\ NoCallback
     ELSE Data(OnPartData(user, <<"CR">>), pos, last)

PartDataBoundary(last) ==
  /\ At({"s_part_data_boundary"})
  /\ IF ch # multipart_boundary[index + 1]
     THEN Data(OnPartData(user, Lookbehind), pos, last)
     ELSE IF index + 1 = boundary_length
     THEN /\ Read("s_part_data_almost_end", index + 1, mark, last)
          /\ user' = AfterPart(user)
          /\ mp' = FormAfter(user)
     ELSE Read(state, index + 1, mark, last) /\ NoCallback

\* Behind a boundary: CR before the next part, or two hyphens.
BoundaryEnd(last) ==
  \/ /\ At({"s_part_data_almost_end"})
     /\ IF ch \notin {"-", "CR"} THEN Refuse
        ELSE /\ Read(IF ch = "-" THEN "s_part_data_final_hyphen" ELSE "s_part_data_end",
                     index, mark, last)
             /\ NoCallback
  \/ /\ At({"s_part_data_final_hyphen"})
     /\ IF ch # "-" THEN Refuse ELSE Read("s_end", index, mark, last) /\ NoCallback
  \/ At({"s_end"}) /\ Read("s_end", index, mark, last) /\ NoCallback

Next ==
  \E last \in IF pos = Len(body) THEN {TRUE} ELSE BOOLEAN :
    \/ StartBoundary(last) \/ HeaderField(last) \/ HeaderValue(last)
    \/ LineFeed(last) \/ PartData(last) \/ AlmostBoundary(last)
    \/ PartDataBoundary(last) \/ BoundaryEnd(last)

Spec == Init /\ [][Next]_vars

-----------------------------------------------------------------------------
\* The form that parts ps make: the last part of each name.
FormOf(ps) ==
  LET names == {ps[i].name : i \in DOMAIN ps} \ {<<>>}
      last(n) == ps[Max({i \in DOMAIN ps : ps[i].name = n})]
  IN [n \in names |-> [content |-> last(n).content, filename |-> last(n).filename,
                       type |-> last(n).type]]

(* The form is at every moment the one of the parts that are read up to    *)
(* their boundary, with the very contents that were sent, however the body *)
(* is cut in pieces and whatever the contents have in common with the      *)
(* boundary; a form that arrives as it was sent is not refused.  Where a   *)
(* token is lost, this holds up to that place.                             *)
FormExact ==
  LET complete == {k \in DOMAIN parts : Len(Text(SubSeq(parts, 1, k))) < pos}
  IN lost = 0 \/ pos <= lost =>
       /\ failed => pos = lost
       /\ mp = FormOf(SubSeq(parts, 1, Cardinality(complete)))
       /\ lost = 0 /\ pos > Len(body) => state = "s_end" /\ Len(parts) = Cardinality(complete)
=============================================================================
