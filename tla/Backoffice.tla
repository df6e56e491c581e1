----------------------------- MODULE Backoffice ------------------------------
(***************************************************************************)
(* Accounts, their scores and the back office, one part at a time: a       *)
(* behaviour has one part moving and the others at rest.                   *)
(***************************************************************************)
EXTENDS Accounts, Sessions, TrustScore, Outreach, Analytics, Rankings, Seeding,
        Staff, DemoData, Companions, Memberships

VARIABLE part

officeVars == <<serial, blocks, part, accountVars, authVars, trustVars, outreachVars,
            analyticsVars, rankingVars, seedVars, staffVars, demoVars, companionVars, membershipVars>>

\* What differs between initial states differs for its own part only.
BackofficeInit ==
  /\ part \in {"accounts", "sessions", "trust", "outreach", "analytics", "rankings",
               "seeding", "staff", "demo", "companions", "memberships"}
  /\ RequestsInit /\ AccountsInit /\ SessionsInit /\ TrustInit /\ OutreachInit
  /\ AnalyticsInit /\ SeedingInit /\ StaffInit /\ DemoInit
  /\ CompanionsInit /\ MembershipsInit
  /\ IF part = "rankings" THEN RankingsInit ELSE acts = <<>> /\ log = {}
  /\ part # "seeding" => script = "pages"
  /\ part \in {"analytics", "rankings", "seeding", "demo", "memberships"} => serial

RestingBut(p) ==
  /\ p # "accounts" => UNCHANGED accountVars
  /\ p # "sessions" => UNCHANGED authVars
  /\ p # "trust" => UNCHANGED trustVars
  /\ p # "outreach" => UNCHANGED outreachVars
  /\ p # "analytics" => UNCHANGED analyticsVars
  /\ p # "seeding" => UNCHANGED seedVars
  /\ p # "staff" => UNCHANGED staffVars
  /\ p # "demo" => UNCHANGED demoVars
  /\ p # "companions" => UNCHANGED companionVars
  /\ p # "memberships" => UNCHANGED membershipVars
  /\ UNCHANGED <<part, rankingVars>>

BackofficeNext ==
  \/ part = "accounts" /\ AccountsNext /\ RestingBut("accounts")
  \/ part = "sessions" /\ SessionsNext /\ RestingBut("sessions")
  \/ part = "trust" /\ TrustNext /\ RestingBut("trust")
  \/ part = "outreach" /\ OutreachNext /\ RestingBut("outreach")
  \/ part = "analytics" /\ AnalyticsNext /\ RestingBut("analytics") /\ UNCHANGED <<serial, blocks>>
  \/ part = "seeding" /\ SeedingNext /\ RestingBut("seeding") /\ UNCHANGED <<serial, blocks>>
  \/ part = "staff" /\ StaffNext /\ RestingBut("staff")
  \/ part = "demo" /\ DemoNext /\ RestingBut("demo") /\ UNCHANGED <<serial, blocks>>
  \/ part = "companions" /\ CompanionsNext /\ RestingBut("companions")
  \/ part = "memberships" /\ MembershipsNext /\ RestingBut("memberships")

BackofficeSpec == BackofficeInit /\ [][BackofficeNext]_officeVars
-----------------------------------------------------------------------------
\* The type invariant of the part that moves.
BackofficeTypeOK ==
  /\ part = "accounts" => AccountsTypeOK
  /\ part = "sessions" => SessionsTypeOK
  /\ part = "trust" => TrustTypeOK
  /\ part = "outreach" => OutreachTypeOK
  /\ part = "analytics" => AnalyticsTypeOK
  /\ part = "seeding" => SeedingTypeOK
  /\ part = "staff" => StaffTypeOK
  /\ part = "demo" => DemoTypeOK
  /\ part = "companions" => CompanionsTypeOK
  /\ part = "memberships" => MembershipsTypeOK

\* The status of an account and of a companion is the one that was decided last
\* (moderation, reports, admin_review_companion).
StatusHasItsReason ==
  /\ part = "accounts" => AccountHasItsReason
  /\ part = "companions" => CompanionIsApproved

\* A campaign goes out once and an event counts once, however often they are
\* sent, and what is paid for is given once (send_campaign, ingest,
\* _activate_membership).
OnceEach ==
  /\ part = "outreach" => CampaignGoesOutOnce
  /\ part = "analytics" => EventsCountOnce
  /\ part = "memberships" => PaidDaysAreKept

\* What the two seeding scripts and the demo data promise of being run again.
RunsAgain ==
  /\ part = "seeding" => PagesSeedOnce
  /\ part = "demo" => DemoDataRepeats

\* Shelves and funnels are computed from lists alone.
ListsAsMeant == part = "rankings" => RankingsAsMeant
=============================================================================
