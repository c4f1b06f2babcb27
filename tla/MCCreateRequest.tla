--------------------------- MODULE MCCreateRequest --------------------------
(***************************************************************************)
(* Small instances of CreateRequest.  Widths and limits are scaled so that *)
(* every product and every sum can pass its bound, as with the real ones.  *)
(***************************************************************************)
EXTENDS CreateRequest

Number(key, n) == [key |-> key, n |-> n, text |-> ""]

Text(key, text) == [key |-> key, n |-> 0, text |-> text]

Tag(key, n) == [key |-> "tagspecification", n |-> n, text |-> key]

Term(wellKnown, zone, zoneID, outpost) ==
    [wellKnown |-> wellKnown, zone |-> zone, zoneID |-> zoneID, outpost |-> outpost]

Mount(fs) == [mode |-> "SingleNodeWriter", block |-> FALSE, fs |-> fs]

Shared == [mode |-> "MultiNodeMultiWriter", block |-> TRUE, fs |-> ""]

SharedMount == [mode |-> "MultiNodeMultiWriter", block |-> FALSE, fs |-> "ext4"]

Bytes(required, limit) == [given |-> TRUE, required |-> required, limit |-> limit]

Plain == [params |-> {}, mutable |-> {}, caps |-> {Mount("ext4")}, range |-> Bytes(8, 0),
          source |-> "none", preferred |-> <<>>, requisite |-> <<Term("za", "", "", "")>>]

\* For gp3 EC2 has more than the table says.
MCLimits == [t \in {"gp3", "io1", "io2", "st1"} |->
    CASE t = "gp3" -> [max |-> 60, fallback |-> 20, min |-> 6, perGb |-> 5]
      [] t = "io1" -> [max |-> 40, fallback |-> 40, min |-> 3, perGb |-> 2]
      [] t = "io2" -> [max |-> 100, fallback |-> 100, min |-> 3, perGb |-> 10]
      [] OTHER -> [max |-> 0, fallback |-> 0, min |-> 0, perGb |-> 0]]

\* The requests to EC2; IOPS and size are int32.
MCOptions ==
    [size : -MaxInt32..MaxInt32, type : {""} \cup DOMAIN MCLimits, zone : STRING, zoneID : STRING, outpost : STRING,
     encrypted : BOOLEAN, kms : STRING, snapshot : BOOLEAN, clone : BOOLEAN, multi : BOOLEAN,
     iops : 0..MaxInt32, throughput : Nat, rate : Nat, tags : SUBSET (STRING \X Nat)]

\* GetDiskByID does not fill in the zone ID.
MCSource == [kms |-> "k1", zone |-> "za", zoneID |-> "", outpost |-> ""]

\* Sizes: none, zero, around GiB, above EC2's limit, and saturating int32.
Sizes == {[Plain EXCEPT !.range = r] : r \in
            {[given |-> FALSE, required |-> 0, limit |-> 0], Bytes(0, 0), Bytes(1, 0), Bytes(4, 4), Bytes(5, 7),
             Bytes(5, 8), Bytes(64, 0), Bytes(65, 0), Bytes(2048, 0), Bytes(3072, 0)}}

\* IOPS by number and by GiB, below, within and above the limits, with and without the increase.
\* For gp3 they are not above the table's maximum: see MCBetweenLimits.
Performance ==
    {[Plain EXCEPT !.params = {Text("type", "io1"), p} \cup increase, !.range = Bytes(size, 0)] :
        size \in {4, 48}, p \in {Number("iops", 2), Number("iops", 70), Number("iopspergb", 60)},
        increase \in {{}, {Text("allowautoiopspergbincrease", "true")}}}
    \cup {[Plain EXCEPT !.params = {p} \cup increase, !.range = Bytes(size, 0)] :
        size \in {4, 48}, p \in {Number("iops", 2), Number("iops", 20), Number("iopspergb", 1)},
        increase \in {{}, {Text("allowautoiopspergbincrease", "true")}}}
    \cup {[Plain EXCEPT !.params = {Text("type", type), p}] :
        type \in {"st1", "io2"}, p \in {Number("iops", -1), Number("iopspergb", 1)}}

\* Mutable parameters over parameters, and both names of the type.
Mutable ==
    {[Plain EXCEPT !.params = {Text("type", "io1"), Number("throughput", 2)}, !.mutable = m] : m \in SUBSET
        {Text("type", "gp3"), Text("volumeType", "st1"), Number("throughput", 3), Number("iops", 15)}}

\* Tags: of the user, over those of the driver, reserved, and with the parameters that become tags.
Tags == {[Plain EXCEPT !.params = p \cup {Text("pvcname", ""), Number("iopspergb", 3)}, !.mutable = m] :
            p \in SUBSET {Tag("Name", 1), Tag("CSIVolumeName", 2)},
            m \in {{}, {Tag("Name", 3)}, {Tag("kubernetes.io/x", 4)}}}

\* Formatting options with file systems.
Formats ==
    {[Plain EXCEPT !.params = p, !.caps = c] :
        p \in {{Text("blocksize", "4096")}, {Text("bytesperinode", "8"), Text("inodesize", "8")},
               {Text("ext4bigalloc", "true"), Text("ext4clustersize", "16")}, {Text("ext4clustersize", "16")},
               {Text("ext4encryptionsupport", "false"), Text("numberofinodes", "")},
               {Text("blockattachuntilinitialized", "true"), Text("fstype", "ext4")}},
        c \in {{Mount(fs)} : fs \in {"", "ext3", "ext4", "xfs", "ntfs"}} \cup {{Mount("ext4"), Mount("xfs")}, {Shared}}}

\* Places: preferred and required, by zone, zone ID and outpost, with the same keys in all terms.
Places ==
    {[Plain EXCEPT !.preferred = p, !.requisite = r] :
        p \in {<<>>, <<Term("zb", "zb", "idb", "ob")>>, <<Term("zb", "zb", "idb", "incomplete"), Term("za", "za", "ida", "oa")>>},
        r \in {<<Term("za", "za", "ida", "oa")>>}}
    \cup {[Plain EXCEPT !.requisite = r] : r \in {<<>>, <<Term("", "za", "", "")>>, <<Term("", "", "ida", "")>>}}

\* Sources: snapshots and clones, whether they can be or not.
Sources ==
    {[Plain EXCEPT !.source = src, !.requisite = r, !.params = p] :
        src \in {"snapshot", "volume", "both", "neither"},
        r \in {<<>>, <<Term("za", "", "", "")>>, <<Term("", "", "idb", ""), Term("", "", "ida", "")>>,
               <<Term("za", "", "", "oa")>>},
        p \in {{}, {Text("encrypted", "true"), Text("kmskeyid", "k1")}, {Text("kmskeyid", "k2")},
               {Text("encrypted", "false")}, {Number("volumeinitializationrate", 2)}}}

\* What is refused while it is read, and multi-attach.
Refused ==
    {[Plain EXCEPT !.params = {p, Text("type", "io2")}] : p \in {Text("iops", "bad"), Text("nokey", ""), Text("blocksize", "bad")}}
    \cup {[Plain EXCEPT !.mutable = {p}] : p \in {Text("iops", "bad"), Text("nokey", "")}}
    \cup {[Plain EXCEPT !.caps = c, !.params = {Text("type", t)}] :
             c \in {{}, {Shared}, {SharedMount}, {Shared, Mount("ext4")}}, t \in {"io2", "gp3"}}
    \cup {[Plain EXCEPT !.params = {Number("iops", 9), Number("iopspergb", 3)}]}

MCRequests == Sizes \cup Performance \cup Mutable \cup Tags \cup Formats \cup Places \cup Sources \cup Refused

\* IOPS between the fallback and EC2's maximum.
MCBetweenLimits == {[Plain EXCEPT !.params = {Number("iops", 50)}, !.range = Bytes(48, 0)]}

-----------------------------------------------------------------------------
(* What TLC refutes, each with the requests named *)

\* Keys that differ in case only, or two tags with one key, are read in the order of the map.
MCAmbiguous ==
    {[Plain EXCEPT !.params = {Tag("Name", 1), Tag("Name", 2)}],
     [Plain EXCEPT !.params = {Text("type", "gp3"), Text("type", "st1")}]}

\* The controller does not know the file system under its upper-case name, the node does.
MCUpperCase == {[Plain EXCEPT !.caps = {Mount("XFS")}, !.params = {Text("bytesperinode", "8")}]}

\* Terms with different keys: the zone of one and the ID of another.
MCMixedTerms == {[Plain EXCEPT !.preferred = <<Term("zb", "", "", ""), Term("", "", "ida", "")>>]}

\* A zone ID alone: the answer has no zone.
MCZoneIDOnly == {[Plain EXCEPT !.requisite = <<Term("", "", "ida", "")>>]}

\* A size within GiB of int64's maximum: rounding it up wraps.
MCWrappedSize == {[Plain EXCEPT !.range = Bytes(4095, 0)]}

\* An int32 product that wraps.
MCWrappedIOPS == {[Plain EXCEPT !.params = {Text("type", "io2"), Number("iopspergb", 80)}, !.range = Bytes(48, 0)]}
=============================================================================
