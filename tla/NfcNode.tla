------------------------------ MODULE NfcNode ------------------------------
(***************************************************************************)
(* nfc_node (src/nfc/src/nfc_node.cpp): the polling timer and the poll     *)
(* service share one memory of the last tag, which decides what is         *)
(* published.  One executor thread runs the callbacks, each under          *)
(* device_mutex_, so each is one action; on_read and on_write pass a block *)
(* to or from the tag and leave the node's state alone.  Before and after,  *)
(* the node is constructed and destroyed.                                  *)
(*                                                                         *)
(* A tag's identity (uid, type, ats) is one value `card`; rssi_dbm is kept *)
(* apart, because it changes while the card does not.                      *)
(***************************************************************************)
EXTENDS Integers, Sequences

CONSTANTS
    Parameters,         \* what the node may be started with
    Cards,              \* the tags
    Rssi,               \* the signal strengths that are told apart
    PublishDuplicates,  \* parameter publish_duplicates
    AutoPollEnabled     \* parameter auto_poll_enabled

ASSUME NfcAssumption == PublishDuplicates \in BOOLEAN /\ AutoPollEnabled \in BOOLEAN

TagInfo == [card : Cards, rssi_dbm : Rssi]

\* At most one value: <<>> for none.
Maybe(S) == {<<>>} \cup {<<x>> : x \in S}

VARIABLES
    pc,          \* where the node's thread is
    dev,         \* dev_: not there, in use, or given back
    field,       \* what lies on the reader
    last_tag,    \* last_tag_info_, <<>> when has_last_tag_ is false
    sent,        \* what the last callback published on nfc/tag_detected
    published,   \* the last message on nfc/tag_detected
    polled,      \* history: what the last poll reported, <<>> for no tag or an error
    detected,    \* history: the last tag that a poll reported
    announced    \* history: what lies on the reader was published since it was put there

node == <<pc, dev>>
vars == <<node, field, last_tag, sent, published, polled, detected, announced>>

-----------------------------------------------------------------------------

Init ==
    /\ pc = "construct" /\ dev = "null"
    /\ field = <<>> /\ last_tag = <<>>
    /\ sent = <<>> /\ published = <<>>
    /\ polled = <<>> /\ detected = <<>>
    /\ announced = FALSE

\* p.named: neither the driver, the name nor the device is "".
validate_config(p) ==
    /\ p.transport \in {"i2c", "spi", "uart"}
    /\ p.named
    /\ p.poll_period_ms > 0 /\ p.poll_timeout_ms >= 0
    /\ p.i2c_addr \in 0..127 /\ p.cs_pin >= 0 /\ p.baud > 0

\* The constructor: what throws after nfc_init skips the destructor, so that
\* the device stays open.
construct(p, ok) ==
    /\ pc = "construct"
    /\ \/ ~(validate_config(p) /\ ok["alloc"]) /\ pc' = "failed" /\ UNCHANGED dev
       \/ /\ validate_config(p) /\ ok["alloc"]
          /\ IF ok["init"] THEN /\ pc' = IF ok["create"] THEN "spin" ELSE "abandoned"
                                /\ dev' = "open"
             ELSE pc' = "failed" /\ dev' = "freed"
    /\ UNCHANGED <<field, last_tag, sent, published, polled, detected, announced>>

destroy ==
    /\ pc = "spin"
    /\ pc' = "destroyed" /\ dev' = "freed"
    /\ sent' = <<>>
    /\ UNCHANGED <<field, last_tag, published, polled, detected, announced>>

same_tag(lhs, rhs) == lhs = rhs

\* Mutant: the tag is published but not remembered.
publish_forgets(info) ==
    IF ~PublishDuplicates /\ last_tag # <<>> /\ same_tag(info, last_tag[1])
    THEN sent' = <<>> /\ UNCHANGED <<published, last_tag, announced>>
    ELSE /\ sent' = <<info>> /\ published' = <<info>>
         /\ announced' = TRUE
         /\ UNCHANGED last_tag

\* Mutant: a tag that follows another one counts as the same.
publish_first(info) ==
    IF ~PublishDuplicates /\ last_tag # <<>>
    THEN sent' = <<>> /\ UNCHANGED <<published, last_tag, announced>>
    ELSE /\ sent' = <<info>> /\ published' = <<info>>
         /\ last_tag' = <<info>>
         /\ announced' = TRUE

publish_detected_tag(info) ==
    IF ~PublishDuplicates /\ last_tag # <<>> /\ same_tag(info, last_tag[1])
    THEN sent' = <<>> /\ UNCHANGED <<published, last_tag, announced>>
    ELSE /\ sent' = <<info>> /\ published' = <<info>>
         /\ last_tag' = <<info>>
         /\ announced' = TRUE

\* Mutant: the last tag stays.
clear_nothing == UNCHANGED last_tag

\* Mutant: last_tag_info_ is zeroed, but has_last_tag_ stays true.
clear_info_only == last_tag' = <<[card |-> "zeros", rssi_dbm |-> 0]>>

clear_last_tag == last_tag' = <<>>

\* The outcomes of nfc_poll: the tag on the reader (rc 0); or no tag (rc 1) and
\* errors (rc < 0), which a present tag that does not answer gives, too.
nfc_poll == {<<>>, field}

\* Both pollers handle a result alike, the reply of the service apart.
handle(result) ==
    /\ pc = "spin"
    /\ polled' = result
    /\ UNCHANGED <<node, field>>
    /\ IF result # <<>>
       THEN publish_detected_tag(result[1]) /\ detected' = result
       ELSE /\ clear_last_tag /\ sent' = <<>>
            /\ UNCHANGED <<published, detected, announced>>

\* The timer exists only if auto_poll_enabled is set.
poll_once(result) == AutoPollEnabled /\ handle(result)

on_poll(result) == handle(result)

-----------------------------------------------------------------------------
(* The reader's surroundings.                                              *)

Place == /\ field = <<>>
         /\ \E info \in TagInfo : field' = <<info>>
         /\ announced' = FALSE /\ sent' = <<>>
         /\ UNCHANGED <<node, last_tag, published, polled, detected>>

Remove == /\ field # <<>>
          /\ field' = <<>>
          /\ announced' = FALSE /\ sent' = <<>>
          /\ UNCHANGED <<node, last_tag, published, polled, detected>>

\* A held card is measured with another signal strength.
Fade == /\ field # <<>>
        /\ \E r \in Rssi : field' = <<[field[1] EXCEPT !.rssi_dbm = r]>>
        /\ sent' = <<>>
        /\ UNCHANGED <<node, last_tag, published, polled, detected, announced>>

-----------------------------------------------------------------------------

Next ==
    \/ \E p \in Parameters, ok \in [{"alloc", "init", "create"} -> BOOLEAN] : construct(p, ok)
    \/ destroy
    \/ \E result \in nfc_poll : poll_once(result) \/ on_poll(result)
    \/ Place \/ Remove \/ Fade

Spec == Init /\ [][Next]_vars

\* The timer keeps firing, and a tag that stays on the reader answers some of
\* its polls.
Fairness ==
    /\ WF_vars(\E result \in nfc_poll : poll_once(result))
    /\ SF_vars(field # <<>> /\ poll_once(field))

-----------------------------------------------------------------------------
(* Properties.                                                             *)

TypeOK ==
    /\ pc \in {"construct", "spin", "failed", "abandoned", "destroyed"}
    /\ dev \in {"null", "open", "freed"}
    /\ field \in Maybe(TagInfo) /\ last_tag \in Maybe(TagInfo)
    /\ sent \in Maybe(TagInfo) /\ published \in Maybe(TagInfo)
    /\ polled \in Maybe(TagInfo) /\ detected \in Maybe(TagInfo)
    /\ announced \in BOOLEAN

\* Tags are polled and written with an open device only, and a failing nfc_init
\* and the destructor give it back.
GivenBack ==
    /\ pc = "spin" => dev = "open"
    /\ pc \in {"failed", "destroyed"} => dev # "open"

\* Suppressing duplicates hides no card: the last message on the topic always is
\* of the card that either poller detected last, also when cards are exchanged
\* between two polls.  (Of its signal strength nothing is demanded: the README
\* wants a held card to be published once.)
TopicIsCurrent ==
    /\ published = <<>> <=> detected = <<>>
    /\ published # <<>> => published[1].card = detected[1].card

\* Without publish_duplicates, a reading is published only if the poll before,
\* the timer's or the service's, did not report the very same reading.
NoRepeats == [][~PublishDuplicates /\ sent' # <<>> => sent' # polled]_vars

\* Once a poll has found the reader empty, a tag on it is published, unless it
\* is taken away; that the same tag was published before does not matter.
NewStayIsPublished ==
    pc = "spin" /\ field # <<>> /\ polled = <<>>
        ~> pc # "spin" \/ field = <<>> \/ sent # <<>>

\* What the README says of publish_duplicates=false: a card that never leaves
\* the reader is published once, even if every poll sees it.
HeldCardPublishedOnce ==
    [][~PublishDuplicates /\ sent' # <<>> => ~announced \/ polled = <<>>]_vars

=============================================================================
