------------------------------- MODULE People --------------------------------
(***************************************************************************)
(* What users do to each other, one part at a time: a behaviour has one    *)
(* part moving and the others at rest.                                     *)
(***************************************************************************)
EXTENDS Matching, Contacts, Groups, Clubs, Guilds, Content, Media, Transfers

VARIABLE part

peopleVars == <<serial, blocks, part, matchVars, contactVars, groupVars, clubVars, guildVars,
            contentVars, mediaVars, transferVars>>

\* What differs between initial states differs for its own part only.
PeopleInit ==
  /\ part \in {"matching", "contacts", "groups", "clubs", "guilds", "content", "media",
               "transfers"}
  /\ RequestsInit /\ MatchInit /\ ContactsInit /\ GroupsInit /\ ClubsInit
  /\ GuildsInit /\ ContentInit /\ MediaInit /\ TransfersInit
  /\ part # "clubs" => base = 0
  /\ part # "guilds" => guild.owner = "none"
  /\ part # "content" => item.is = "post" /\ item.counts = "like"
  /\ part # "media" => ~autoApprove
  /\ part = "media" => serial

AtRestBut(p) ==
  /\ p # "matching" => UNCHANGED matchVars
  /\ p # "contacts" => UNCHANGED contactVars
  /\ p # "groups" => UNCHANGED groupVars
  /\ p # "clubs" => UNCHANGED clubVars
  /\ p # "guilds" => UNCHANGED guildVars
  /\ p # "content" => UNCHANGED contentVars
  /\ p # "media" => UNCHANGED mediaVars
  /\ p # "transfers" => UNCHANGED transferVars
  /\ UNCHANGED part

PeopleNext ==
  \/ part = "matching" /\ MatchNext /\ AtRestBut("matching")
  \/ part = "contacts" /\ ContactsNext /\ AtRestBut("contacts")
  \/ part = "groups" /\ GroupsNext /\ AtRestBut("groups")
  \/ part = "clubs" /\ ClubsNext /\ AtRestBut("clubs")
  \/ part = "guilds" /\ GuildsNext /\ AtRestBut("guilds")
  \/ part = "content" /\ ContentNext /\ AtRestBut("content")
  \/ part = "media" /\ MediaNext /\ AtRestBut("media")
  \/ part = "transfers" /\ TransfersNext /\ AtRestBut("transfers")

PeopleSpec == PeopleInit /\ [][PeopleNext]_peopleVars
-----------------------------------------------------------------------------
\* The type invariant of the part that moves.
PeopleTypeOK ==
  /\ part = "matching" => MatchTypeOK
  /\ part = "contacts" => ContactsTypeOK
  /\ part = "groups" => GroupsTypeOK
  /\ part = "clubs" => ClubsTypeOK
  /\ part = "guilds" => GuildsTypeOK
  /\ part = "content" => ContentTypeOK
  /\ part = "media" => MediaTypeOK
  /\ part = "transfers" => TransfersTypeOK

\* A match is there exactly while two users like each other and neither blocks
\* the other (swipe, block).
MatchesHold == part = "matching" => MatchedIffMutual /\ BlockEndsMatch

\* A club and its chat, a guild and those who consult it, two friends and their
\* chat, a call between two users.
ConversationsHold ==
  /\ part = "clubs" => ChatIsTheClub
  /\ part = "guilds" => OwnConsultation
  /\ part = "contacts" => FriendsShareAChat
  /\ part = "transfers" => CallStaysOver

\* The counters beside the rows they count, of clubs and of content.
CountersCount ==
  /\ part = "clubs" => CountsItsMembers
  /\ part = "content" => CountsItsMarks

\* What others are shown, of content and of avatars.
ShownAsMeant ==
  /\ part = "content" => ShownIsApproved
  /\ part = "media" => DeletedIsNotShown
=============================================================================
