------------------------- MODULE EmailVerification -------------------------
(***************************************************************************)
(* EmailVerificationAgent (backend/app/agents/specialized/                 *)
(* email_verification.py): the signs of a mail are turned into indicators, *)
(* the indicators into a risk, a class and a severity.  What a regular     *)
(* expression finds is data: a mail is the set of the signs it has.        *)
(***************************************************************************)
EXTENDS Integers, Sequences, SequencesExt, FiniteSetsExt

CONSTANT Mails      \* the mails that arrive, records as in Mail

(* `urls` are the distinct URLs, each with its oddities; `attachments` the *)
(* suspicious ones.  Of "eml" only text and headers are read, an event in  *)
(* a form other than a dict is read as an empty mail, and a mail that is   *)
(* not `readable` has a field of another type.                             *)
EmailSigns == {"sender_mismatch", "spf_fail", "dkim_fail", "urgency_language",
               "credential_request", "financial_indicator"}
UrlOddities == {"ip_based_url", "suspicious_tld", "excessive_subdomains"}
EmailForms == {"email", "eml", "event", "object"}
Mail == [form : EmailForms, signs : SUBSET EmailSigns, urls : SUBSET [name : STRING, odd : SUBSET UrlOddities],
         attachments : Nat, readable : BOOLEAN]

ASSUME EmailAssumption == Mails \subseteq Mail /\ \A m \in Mails : IsFiniteSet(m.urls)

EmailClasses == <<"benign", "suspicious", "possible_social_engineering",
                  "possible_phishing", "malicious_indicators">>

VARIABLES mail, emailAnswer

emailVars == <<mail, emailAnswer>>

-----------------------------------------------------------------------------
(* _extract_email_data().                                                  *)
ReadAs(m) == IF m.form = "object" THEN [m EXCEPT !.signs = {}, !.urls = {}, !.attachments = 0]
             ELSE IF m.form = "eml" THEN [m EXCEPT !.attachments = 0]
             ELSE m

EmailSeverity(type) ==      \* 1 (low) to 3 (high)
    CASE type = "suspicious_attachment" -> 3
      [] type \in {"sender_mismatch", "spf_fail", "dkim_fail", "ip_based_url",
                   "credential_request"} -> 2
      [] OTHER -> 1

Contribution(type) ==       \* hundredths
    CASE type = "suspicious_attachment" -> 30
      [] type = "sender_mismatch" -> 25
      [] type \in {"spf_fail", "dkim_fail", "credential_request"} -> 20
      [] type = "ip_based_url" -> 15
      [] OTHER -> 10

(* How often each type is among the indicators: once for the mail, for     *)
(* each URL or for each attachment.                                        *)
IndicatorCount(m) ==
    [type \in EmailSigns \cup UrlOddities \cup {"suspicious_attachment"} |->
        CASE type \in EmailSigns -> IF type \in m.signs THEN 1 ELSE 0
          [] type \in UrlOddities -> Cardinality({u \in m.urls : type \in u.odd})
          [] OTHER -> m.attachments]

HowMany(count, types) == SumFunctionOnSet(count, types)

EmailRisk(count) ==
    Min({100, SumFunction([type \in DOMAIN count |-> count[type] * Contribution(type)])})

PhishingTypes == {"credential_request", "sender_mismatch", "ip_based_url"}
SocialTypes == {"urgency_language", "financial_indicator"}

SlipExactlyTwo(count, risk) ==
    IF HowMany(count, DOMAIN count) = 0 THEN 1
    ELSE IF HowMany(count, {t \in DOMAIN count : EmailSeverity(t) = 3}) = 1 \/ risk >= 70 THEN 5
    ELSE IF HowMany(count, PhishingTypes) >= 2 \/ risk >= 50 THEN 4
    ELSE IF HowMany(count, SocialTypes) >= 2 \/ risk >= 30 THEN 3
    ELSE IF risk >= 10 THEN 2
    ELSE 1

(* _determine_classification(), as a place in EmailClasses.                *)
Classify(count, risk) ==
    IF HowMany(count, DOMAIN count) = 0 THEN 1
    ELSE IF HowMany(count, {t \in DOMAIN count : EmailSeverity(t) = 3}) > 0 \/ risk >= 70 THEN 5
    ELSE IF HowMany(count, PhishingTypes) >= 2 \/ risk >= 50 THEN 4
    ELSE IF HowMany(count, SocialTypes) >= 2 \/ risk >= 30 THEN 3
    ELSE IF risk >= 10 THEN 2
    ELSE 1

(* The severity of the finding, 0 to 3, and how many recommendations.      *)
FindingSeverity(class) == <<0, 1, 2, 2, 3>>[class]
Recommendations(class) == <<0, 2, 3, 4, 4>>[class]

VerifiedAs(m) ==
    LET count == IndicatorCount(ReadAs(m))
        class == Classify(count, EmailRisk(count))
    IN  IF ~m.readable /\ m.form # "object"
        THEN [status |-> "failed", class |-> 0, severity |-> 0, risk |-> 0, advice |-> 0]
        ELSE [status |-> "success", class |-> class, severity |-> FindingSeverity(class),
              risk |-> EmailRisk(count), advice |-> Recommendations(class)]

VerifyEmail(m) == mail' = m /\ emailAnswer' = VerifiedAs(m)

EmailInit == LET empty == [form |-> "email", signs |-> {}, urls |-> {}, attachments |-> 0,
                           readable |-> TRUE]
             IN  mail = empty /\ emailAnswer = VerifiedAs(empty)
EmailNext == \E m \in Mails : VerifyEmail(m)
EmailSpec == EmailInit /\ [][EmailNext]_emailVars

-----------------------------------------------------------------------------
(* The same mail with less to say against it.                              *)
Weaker(m) ==
    {[m EXCEPT !.signs = @ \ {s}] : s \in m.signs}
    \cup {[m EXCEPT !.urls = @ \ {u}] : u \in m.urls}
    \cup {[m EXCEPT !.urls = (@ \ {u}) \cup {[u EXCEPT !.odd = {}]}] : u \in m.urls}
    \cup {[m EXCEPT !.attachments = n] : n \in 0..(m.attachments - 1)}

(* A mail is only accused: across a cascade that mixes counts of kinds     *)
(* with sums of risks, no sign, URL or attachment that is added makes it   *)
(* look better, and it is benign only if nothing was found in it; sent as  *)
(* raw text it never looks worse than parsed.                              *)
MailsOnlyAccused ==
    emailAnswer.status = "success" =>
        /\ \A m \in Weaker(mail) :
              LET weaker == VerifiedAs(m)
              IN  /\ weaker.class <= emailAnswer.class /\ weaker.severity <= emailAnswer.severity
                  /\ weaker.risk <= emailAnswer.risk
        /\ emailAnswer.class = 1 <=> emailAnswer.risk = 0
        /\ mail.form = "email" => VerifiedAs([mail EXCEPT !.form = "eml"]).class <= emailAnswer.class
=============================================================================
