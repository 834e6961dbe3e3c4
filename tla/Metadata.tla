----------------------------- MODULE Metadata -----------------------------
(***************************************************************************)
(* The columns that are more than a number                                 *)
(* (src/output/output_metadata.c): the mode, the attributes of a file,     *)
(* with what is remembered of its device, and the names of owners, with    *)
(* their cache.                                                            *)
(***************************************************************************)
EXTENDS Integers, SequencesExt

CONSTANTS
  MaxDevCache,  \* MAX_DEV_CACHE (64)
  Buckets       \* UID_CACHE_SIZE and GID_CACHE_SIZE (4096)

ASSUME BucketAssumption == Buckets \in Nat \ {0}

\* A number is one character of a text.
Number(n) == <<ToString(n)>>

-----------------------------------------------------------------------------
\* A mode is its type, the permissions (1 is the owner's r, 9 is the others'
\* x), and which of set-uid (3), set-gid (6) and sticky (9) are there.
TypeLetter == [REG |-> "-", DIR |-> "d", LNK |-> "l", CHR |-> "c",
               BLK |-> "b", FIFO |-> "p", SOCK |-> "s", NONE |-> "?"]
TypeName == [REG |-> "FILE", DIR |-> "DIR", LNK |-> "LINK", CHR |-> "CHR",
             BLK |-> "BLK", FIFO |-> "FIFO", SOCK |-> "SOCK", NONE |-> "UNKNOWN"]
Rwx == <<"r", "w", "x", "r", "w", "x", "r", "w", "x">>

\* The letters of a special bit, with and without the x it hides.
SpecialLetter(bit, x) ==
  IF bit = 9 THEN IF x THEN "t" ELSE "T" ELSE IF x THEN "s" ELSE "S"

\* format_mode_str
ModeText(mode) ==
  <<TypeLetter[mode.type]>> \o
  [bit \in 1 .. 9 |->
    IF bit \in mode.special THEN SpecialLetter(bit, bit \in mode.perm)
    ELSE IF bit \in mode.perm THEN Rwx[bit] ELSE "-"]

\* 0%o of the permissions alone: the special bits are not in it.
OctalText(mode) ==
  <<"0">> \o Number(MapThenSumSet(LAMBDA bit : 2 ^ (9 - bit), mode.perm))

-----------------------------------------------------------------------------
\* dev_cache: a device's status, once it is known.
NoStatus == [d \in {} |-> "supported"]

Status(cache, dev) == IF dev \in DOMAIN cache THEN cache[dev] ELSE "unknown"

\* set_device_status: nothing is added to a full cache.
SetStatus(cache, dev, status) ==
  IF dev \in DOMAIN cache \/ Cardinality(DOMAIN cache) < MaxDevCache
  THEN [d \in DOMAIN cache \cup {dev} |-> IF d = dev THEN status ELSE cache[d]]
  ELSE cache

AttrLetters == <<"s", "u", "c", "S", "i", "a", "d", "A", "D", "B", "Z", "E", "I", "i", "j", "t">>

\* The 16 columns of the attributes that are set.
FlagsText(flags) ==
  [k \in 1 .. 16 |-> IF k \in flags THEN AttrLetters[k] ELSE "-"]

\* get_xattr_str: the text, and the cache after it.  attr.answer is what
\* open and ioctl make of the file: "denied", "notty", "error", or "flags".
XattrOf(cache, dev, attr) ==
  IF Status(cache, dev) = "unsupported"
  THEN [text |-> <<"[unsupported]">>, cache |-> cache]
  ELSE IF attr.answer = "denied" THEN [text |-> <<"[access_denied]">>, cache |-> cache]
  ELSE IF attr.answer = "notty"
  THEN [text |-> <<"[unsupported]">>, cache |-> SetStatus(cache, dev, "unsupported")]
  ELSE IF attr.answer = "error" THEN [text |-> <<"[ioctl_error]">>, cache |-> cache]
  ELSE [text |-> FlagsText(attr.flags),
        cache |-> IF Status(cache, dev) = "unknown"
                  THEN SetStatus(cache, dev, "supported") ELSE cache]

-----------------------------------------------------------------------------
\* uid_cache, gid_cache: in every bucket, entries of an id and its text, the
\* newest first.
NoOwners == [bucket \in 0 .. Buckets - 1 |-> <<>>]

\* name(id), or the id alone.
OwnerText(id, name) ==
  IF name = "none" THEN Number(id) ELSE <<name, "(">> \o Number(id) \o <<")">>

\* MUTANT: the first entry of the bucket is taken.
CachedAny(cache, id) == DOMAIN cache[id % Buckets]

\* The places in the bucket that have the text of this id; the first one counts.
Cached(cache, id) == {k \in DOMAIN cache[id % Buckets] : cache[id % Buckets][k].id = id}

\* get_username, get_groupname: names is the system's answer now.
NameOf(cache, names, id) ==
  LET known == Cached(cache, id)
      text == OwnerText(id, names[id]) IN
  IF known # {} THEN [text |-> cache[id % Buckets][Min(known)].text, cache |-> cache]
  ELSE [text |-> text,
        cache |-> [cache EXCEPT ![id % Buckets] = <<[id |-> id, text |-> text]>> \o @]]
=============================================================================
