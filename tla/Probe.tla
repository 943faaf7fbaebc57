-------------------------------- MODULE Probe --------------------------------
(***************************************************************************)
(* The probe of an HTTP origin (src/protocol_probe.rs): a HEAD request and *)
(* a GET of the first byte, whose answers are merged.  The origin may      *)
(* replace the resource between the two.                                   *)
(***************************************************************************)
EXTENDS Integers, Sequences

CONSTANTS
  Lengths,      \* of the versions of the resource, in the order they appear
  Servers       \* what servers are like: head, ranges, headers of the answers

ASSUME ProbeAssumption ==
  /\ Lengths \in Seq(Nat) /\ Lengths # <<>>
  /\ Servers \subseteq [head : {"answers", "refused", "unreadable"}, get : {"answers", "refused"},
                        ranges : BOOLEAN, accepts : BOOLEAN, headLength : BOOLEAN,
                        headTag : BOOLEAN, getLength : BOOLEAN, getTag : BOOLEAN]

VARIABLES
  server,       \* the server of the origin
  version,      \* of the resource, now
  probing,      \* step of probe_download_target
  head,         \* the HeadProbe, if there is one
  probe,        \* the DownloadProtocolProbe
  asked         \* history: the versions that answered HEAD and GET

probeVars == <<server, version, probing, head, probe, asked>>

NoLength == -1
NoTag == 0
Versions == DOMAIN Lengths
NoProbe == [length |-> NoLength, ranges |-> FALSE, tag |-> NoTag]

(* What the headers say: parse_content_length, extract_resource_identity. *)
Told(sends, value, none) == IF sends THEN value ELSE none
Length(sends) == Told(sends, Lengths[version], NoLength)
Tag(sends) == Told(sends, version, NoTag)

ProbeInit ==
  /\ server \in Servers /\ version = 1
  /\ probing = "head" /\ head = NoProbe /\ probe = NoProbe
  /\ asked = [head |-> 0, get |-> 0]

(* The resource is replaced. *)
Replace ==
  /\ version + 1 \in Versions /\ version' = version + 1
  /\ UNCHANGED <<server, probing, head, probe, asked>>

(* probe_with_head: no answer, and one without success, is not an error;  *)
(* a header that cannot be read is.                                        *)
AskHead ==
  /\ probing = "head"
  /\ IF server.head = "refused" THEN probing' = "get" /\ UNCHANGED <<head, asked>>
     ELSE IF server.head = "unreadable" THEN probing' = "failed" /\ UNCHANGED <<head, asked>>
     ELSE /\ head' = [length |-> Length(server.headLength), ranges |-> server.accepts,
                      tag |-> Tag(server.headTag)]
          /\ asked' = [asked EXCEPT !.head = version]
          /\ probing' = IF head'.length = 0 THEN "empty" ELSE "get"
  /\ UNCHANGED <<server, version, probe>>

(* An empty resource is not asked for its first byte. *)
Empty ==
  /\ probing = "empty" /\ probing' = "done"
  /\ probe' = head
  /\ UNCHANGED <<server, version, head, asked>>

(* Mutated form of Merged: the answer to HEAD comes first. *)
MergedFromHead(tag) == IF head.tag # NoTag THEN head.tag ELSE tag

(* merge_resource_identity *)
Merged(tag) == IF tag # NoTag THEN tag ELSE head.tag
OrHead(length) == IF length # NoLength THEN length ELSE head.length

(* probe_with_range_response *)
Status == IF ~server.ranges THEN "ok" ELSE IF Lengths[version] = 0 THEN "unsatisfiable" ELSE "partial"

GetFirstByte ==
  LET known == Length(server.getLength) IN
  /\ probing = "get"
  /\ IF server.get = "refused" THEN probing' = "failed" /\ UNCHANGED <<probe, asked>>
     ELSE /\ probing' = "done"
          /\ asked' = [asked EXCEPT !.get = version]
          /\ probe' = [length |-> IF Status = "partial" THEN known ELSE OrHead(known),
                       ranges |-> Status = "partial" \/ (Status = "unsatisfiable" /\ OrHead(known) > 0),
                       tag |-> Merged(Tag(server.getTag))]
  /\ UNCHANGED <<server, version, head>>

ProbeNext == Replace \/ AskHead \/ Empty \/ GetFirstByte

-----------------------------------------------------------------------------

ProbeTypeOK ==
  /\ server \in Servers /\ version \in Versions
  /\ probing \in {"head", "get", "empty", "done", "failed"}
  /\ {head, probe} \subseteq
       [length : {NoLength} \cup {Lengths[v] : v \in Versions}, ranges : BOOLEAN,
        tag : {NoTag} \cup Versions]

(* The length and the validator of a probe are those of one version that   *)
(* the origin has served, though it may have been replaced between the two *)
(* requests, as long as the answer to GET has both: what HEAD said only    *)
(* fills gaps.                                                             *)
ProbeIsOfOneVersion ==
  probing = "done" /\ (asked.get = 0 \/ (server.getLength /\ server.getTag)) =>
    \E v \in {asked.head, asked.get} \ {0} :
      /\ probe.length = Lengths[v]
      /\ probe.tag = NoTag \/ probe.tag = v
=============================================================================
