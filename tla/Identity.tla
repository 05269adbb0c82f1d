------------------------------ MODULE Identity ------------------------------
(* What a driver asks for and what the approver's evaluator accepts        *)
(* (internal/csi/driver: generateRequest, util.go; internal/approver/      *)
(* evaluator).  The two are different programs that derive the identity of *)
(* a pod on their own, at different times, from its service account and    *)
(* from the athenz.io/domain annotation of its namespace, which somebody   *)
(* may change or the API server fail to return in between; and from their  *)
(* own command lines, whose defaults are not the same.                     *)
(*                                                                         *)
(* A name is the sequence of its words, dots and dashes; <<>> is "".       *)
EXTENDS Naturals, Sequences, SequencesExt, FiniteSetsExt

CONSTANTS
  Words,            \* what names are made of besides dots and dashes
  Domains,          \* values of the annotation
  Namespaces,
  ServiceAccounts,
  Flags,            \* what both programs can be given on their command lines
  Volumes,          \* requests that drivers make, each for its volume
  Others,           \* requests that a service account or a user makes itself
  MaxAnnotations    \* bound: annotations set, changed or removed

Requests == Volumes \cup Others

Characters == Words \cup {".", "-"}
Names == Seq(Characters)

(* Each part of a name ends in front of a dot or at the end.               *)
HasParts(name) ==
  \A i \in 1..(Len(name) - 1) : name[i] = "." => name[i + 1] \in Words

(* That no part of a service account's name is empty or begins with a dash *)
(* is what Kubernetes asks of a DNS subdomain.                             *)
ASSUME IdentityAssumption ==
  /\ Words \cap {".", "-"} = {}
  /\ Domains \subseteq Names /\ ServiceAccounts \subseteq Names
  /\ \A name \in ServiceAccounts : HasParts(name)
  /\ Volumes \cap Others = {}
  /\ MaxAnnotations \in Nat

(***************************** names ***************************************)

(* fmt.Sprintf("%s.%s", domain, name)                                      *)
Join(domain, name) == domain \o <<".">> \o name

lastDot(name) == Max({0} \cup {i \in DOMAIN name : name[i] = "."})

(* The driver's: no dot, no domain.                                        *)
extractDomain(name) == SubSeq(name, 1, lastDot(name) - 1)

(* The approver's: no dot, the name itself.                                *)
getDomainFromServiceAccount(name) ==
  IF lastDot(name) = 0 THEN name ELSE extractDomain(name)

(* Mutant: dashes are not doubled.                                         *)
DashedOnce(character) ==
  IF character = "." THEN <<"-">> ELSE <<character>>

(* Dashes are doubled before dots become dashes.                           *)
Dashed(character) ==
  CASE character = "-" -> <<"-", "-">>
    [] character = "." -> <<"-">>
    [] OTHER -> <<character>>

getDashedDomain(domain) == FlattenSeq([i \in DOMAIN domain |-> Dashed(domain[i])])

Pods == [namespace : Namespaces, serviceAccount : ServiceAccounts, useNSForDomain : BOOLEAN]

(************************* command lines ***********************************)

driverDefaults ==
  [trustDomain |-> "cluster.local", duration |-> "1h", issuer |-> "athenz-issuer.athenz.io"]

approverDefaults == [driverDefaults EXCEPT !.issuer = "cert-manager.io"]

(* The chart passes the same flags to both programs.  One that is not      *)
(* given has the default of each program, and a duration of zero is a      *)
(* value like any other.                                                   *)
Given(values, defaults) ==
  [flag \in DOMAIN defaults |-> IF flag \in DOMAIN values THEN values[flag] ELSE defaults[flag]]

(**************************** requests *************************************)

SpiffeOf(trustDomain, namespace, component) ==
  [scheme |-> "spiffe", host |-> trustDomain, namespace |-> namespace, component |-> component]

instanceId == [scheme |-> "athenz", host |-> "instanceid"]

requiredUsages == {"digital signature", "key encipherment", "server auth", "client auth"}

VARIABLES
  multiTenancy,   \* the approver's --multi-tenancy
  flags,          \* given to both programs
  annotation,     \* of each namespace, <<>> when it has none
  annotations,    \* how often annotations have been changed
  annotated,      \* history: namespaces that ever had one
  pod,            \* who makes each request
  request         \* what is asked, and how far the request is

config == <<multiTenancy, flags>>
vars == <<config, annotation, annotations, annotated, pod, request>>

driver == Given(flags, driverDefaults)

approver == Given(flags, approverDefaults)

(* What New makes of the duration.                                         *)
certificateRequestDuration == IF driver.duration = "0s" THEN "1h" ELSE driver.duration

(* The rest of a driver's request: its CSR has a subjectAltName extension  *)
(* and no other, and it impersonates the service account of the pod.       *)
Form(duration, issuer) ==
  [duration |-> duration, issuer |-> issuer, isCA |-> FALSE, usages |-> requiredUsages,
   extensions |-> {[id |-> "subjectAltName", values |-> {"URI", "DNS"}]},
   byServiceAccount |-> TRUE]

DriverForm == Form(certificateRequestDuration, driver.issuer)

Absent == [state |-> "absent"]

(* excused (history): the namespace's annotation changed, or could not be  *)
(* read, after the request was made.                                       *)
NewRequest(form, uris) ==
  [state |-> "pending", excused |-> FALSE, form |-> form, uris |-> uris]

Init ==
  /\ multiTenancy \in BOOLEAN /\ flags \in Flags
  /\ annotation = [n \in Namespaces |-> <<>>]
  /\ annotations = 0
  /\ annotated = {}
  /\ pod \in [Requests -> Pods]
  /\ \A o \in Others : ~pod[o].useNSForDomain
  /\ request = [r \in Requests |-> Absent]

(* Somebody annotates a namespace, or changes or removes its annotation.   *)
Annotate(n, domain) ==
  /\ annotations < MaxAnnotations
  /\ domain # annotation[n]
  /\ annotation' = [annotation EXCEPT ![n] = domain]
  /\ annotations' = annotations + 1
  /\ annotated' = annotated \cup {n}
  /\ request' = [r \in Requests |->
       IF pod[r].namespace = n /\ request[r] # Absent
       THEN [request[r] EXCEPT !.excused = TRUE] ELSE request[r]]
  /\ UNCHANGED <<config, pod>>

-----------------------------------------------------------------------------
(* The driver.                                                             *)

athenzDomain(p) ==
  IF p.useNSForDomain THEN annotation[p.namespace] ELSE extractDomain(p.serviceAccount)

commonName(p) ==
  IF p.useNSForDomain THEN Join(athenzDomain(p), p.serviceAccount) ELSE p.serviceAccount

(* generateRequest parses this and the evaluator compares its String(),    *)
(* which is the same text unless it needs URL escaping: annotations that   *)
(* do are not among Domains.                                               *)
driverID(p) == SpiffeOf(driver.trustDomain, p.namespace, commonName(p))

(* Mutant: an empty domain is not noticed.                                 *)
GenerateAnyDomain(v) ==
  /\ request[v].state \in {"absent", "denied", "approved"}
  /\ request' = [request EXCEPT ![v] =
       NewRequest(DriverForm, <<driverID(pod[v]), instanceId>>)]
  /\ UNCHANGED <<config, annotation, annotations, annotated, pod>>

(* generateRequest for volume v, the first time, after a denial, and for   *)
(* every renewal.  It fails, and csi-lib calls it again, when there is no  *)
(* domain or the annotations cannot be read.                               *)
generateRequest(v) ==
  /\ request[v].state \in {"absent", "denied", "approved"}
  /\ athenzDomain(pod[v]) # <<>>
  /\ request' = [request EXCEPT ![v] =
       NewRequest(DriverForm, <<driverID(pod[v]), instanceId>>)]
  /\ UNCHANGED <<config, annotation, annotations, annotated, pod>>

SpiffeID(namespace, component) == SpiffeOf(approver.trustDomain, namespace, component)

(* Somebody else makes a request of its own and may ask for anything.      *)
OtherURIs(p) ==
  LET components == ServiceAccounts \cup {Join(d, p.serviceAccount) : d \in Domains \cup {<<>>}}
      own == SpiffeOf("theirs", p.namespace, p.serviceAccount)
  IN {<<>>, <<instanceId>>, <<own>>}
       \cup {<<SpiffeID(n, c)>> : n \in Namespaces, c \in components}

RightForm == Form(approver.duration, approver.issuer)

OtherForms ==
  LET With(id, values) ==
        [RightForm EXCEPT !.extensions = @ \cup {[id |-> id, values |-> values]}]
  IN {RightForm,
      [RightForm EXCEPT !.duration = "24h"], [RightForm EXCEPT !.isCA = TRUE],
      [RightForm EXCEPT !.issuer = "another"],
      [RightForm EXCEPT !.usages = @ \cup {"any"}],
      [RightForm EXCEPT !.byServiceAccount = FALSE],
      [RightForm EXCEPT !.extensions = {[id |-> "subjectAltName", values |-> {"URI", "email"}]}],
      With("keyUsage", {}), With("keyUsage", {"cert sign"}),
      With("extKeyUsage", {"server auth"}), With("basicConstraints", {})}

Submit(o) ==
  /\ request[o].state = "absent"
  /\ \E form \in OtherForms, uris \in OtherURIs(pod[o]) :
       /\ form = RightForm \/ uris = <<SpiffeID(pod[o].namespace, pod[o].serviceAccount)>>
       /\ request' = [request EXCEPT ![o] = NewRequest(form, uris)]
  /\ UNCHANGED <<config, annotation, annotations, annotated, pod>>

-----------------------------------------------------------------------------
(* The approver's evaluator.                                               *)

(* Mutant: the names of a CSR have to be URIs.                             *)
ValidExtensionURIOnly(e) ==
  \/ e.id = "subjectAltName" /\ e.values \subseteq {"URI"}
  \/ e.id = "keyUsage" /\ e.values # {}
       /\ e.values \subseteq {"digital signature", "key encipherment"}
  \/ e.id = "extKeyUsage" /\ e.values \subseteq {"server auth", "client auth"}

ValidExtension(e) ==
  \/ e.id = "subjectAltName" /\ e.values \subseteq {"URI", "DNS", "IP"}
  \/ e.id = "keyUsage" /\ e.values # {}
       /\ e.values \subseteq {"digital signature", "key encipherment"}
  \/ e.id = "extKeyUsage" /\ e.values \subseteq {"server auth", "client auth"}

(* The checks of Evaluate before validateIdentity.                         *)
ValidForm(form) ==
  /\ form.duration = approver.duration /\ ~form.isCA /\ form.usages = requiredUsages
  /\ \A e \in form.extensions : ValidExtension(e)

(* Mutant: the service account is not compared.                            *)
NamedInNamespace(r) ==
  request[r].uris[1] = SpiffeID(pod[r].namespace, request[r].uris[1].component)

Named(r) ==
  request[r].uris[1] = SpiffeID(pod[r].namespace, pod[r].serviceAccount)

NamedByAnnotation(r) ==
  request[r].uris[1] =
    SpiffeID(pod[r].namespace, Join(annotation[pod[r].namespace], pod[r].serviceAccount))

Readable(r) ==
  /\ ValidForm(request[r].form) /\ request[r].form.byServiceAccount
  /\ request[r].uris[1].scheme = "spiffe"

InOwnDomain(r) ==
  pod[r].namespace = getDashedDomain(getDomainFromServiceAccount(pod[r].serviceAccount))

(* Mutant: the fallback for other service account names is missing.        *)
AnnotationEqualsDomain(r) ==
  /\ annotation[pod[r].namespace] # <<>>
  /\ annotation[pod[r].namespace] = getDomainFromServiceAccount(pod[r].serviceAccount)

(* validateIdentityDomain after the annotations were read.                 *)
AnnotationAllows(r) ==
  LET domain == annotation[pod[r].namespace] IN
  /\ domain # <<>>
  /\ \/ domain = getDomainFromServiceAccount(pod[r].serviceAccount)
     \/ pod[r].namespace = getDashedDomain(domain)

Decide(r, state) ==
  /\ request' = [request EXCEPT ![r].state = state]
  /\ UNCHANGED <<config, annotation, annotations, annotated, pod>>

(* Only requests to the approver's issuer are queued, and of these         *)
(* csr.URIs[0] panics when the CSR has no URI, so that one is never        *)
(* decided: the worker recovers and tries it again, for ever.              *)
Decidable(r) ==
  /\ request[r].state = "pending" /\ request[r].form.issuer = approver.issuer
  /\ ValidForm(request[r].form) /\ request[r].form.byServiceAccount => request[r].uris # <<>>

(* Evaluate up to the checks of the domain.                                *)
Evaluate(r) ==
  /\ Decidable(r)
  /\ Decide(r, IF ~(Readable(r) /\ (Named(r) \/ NamedByAnnotation(r))) THEN "denied"
               ELSE IF multiTenancy /\ ~InOwnDomain(r) THEN "identified" ELSE "approved")

(* The annotations are read again for the domain.                          *)
validateIdentityDomain(r) ==
  /\ request[r].state = "identified"
  /\ Decide(r, IF AnnotationAllows(r) THEN "approved" ELSE "denied")

(* A read of the annotations fails: the request is denied.                 *)
ReadFails(r) ==
  /\ \/ Decidable(r) /\ Readable(r) /\ ~Named(r)
     \/ request[r].state = "identified"
  /\ request' = [request EXCEPT ![r] = [@ EXCEPT !.state = "denied", !.excused = TRUE]]
  /\ UNCHANGED <<config, annotation, annotations, annotated, pod>>

Next ==
  \/ \E n \in Namespaces, d \in Domains \cup {<<>>} : Annotate(n, d)
  \/ \E v \in Volumes : generateRequest(v)
  \/ \E o \in Others : Submit(o)
  \/ \E r \in Requests : Evaluate(r) \/ validateIdentityDomain(r) \/ ReadFails(r)

Spec == Init /\ [][Next]_vars

(* csi-lib tries again until it has a certificate, the queue serves every  *)
(* request, and reading the annotations does not fail for ever.            *)
Fairness ==
  /\ \A v \in Volumes : WF_vars(generateRequest(v))
  /\ \A v \in Volumes : SF_vars(Evaluate(v)) /\ SF_vars(validateIdentityDomain(v))

FairSpec == Spec /\ Fairness

-----------------------------------------------------------------------------
(* Properties.                                                             *)

States == {"absent", "pending", "identified", "approved", "denied"}

(* The state is of the declared types, and what a driver asks for names a  *)
(* domain that is not empty in front of the service.                       *)
TypeOK ==
  /\ multiTenancy \in BOOLEAN /\ flags \in Flags
  /\ annotation \in [Namespaces -> Domains \cup {<<>>}]
  /\ annotations \in 0..MaxAnnotations
  /\ annotated \subseteq Namespaces
  /\ pod \in [Requests -> Pods]
  /\ \A r \in Requests : request[r].state \in States
  /\ \A v \in Volumes : request[v] # Absent =>
       lastDot(request[v].uris[1].component) > 1

Approved(r) == request[r].state = "approved"

(* A duration of zero: an hour to the driver, nothing to the approver.     *)
DurationsDiffer == approver.duration = "0s"

(* The two programs agree, whichever flags they are given: the evaluator   *)
(* denies what a driver asks for only when the annotation changed, or      *)
(* could not be read, since the request was made, when the domain is not   *)
(* that of the namespace and the approver is to enforce this, or when they *)
(* were given a duration of zero (driver.go:304, evaluator.go:92).         *)
OwnRequestsApproved ==
  \A v \in Volumes : request[v].state = "denied" =>
    \/ request[v].excused \/ DurationsDiffer
    \/ multiTenancy /\ pod[v].namespace # getDashedDomain(athenzDomain(pod[v]))

(* Whatever is asked for and however namespaces are annotated meanwhile,   *)
(* approved requests share an identity only within a namespace, and only   *)
(* if one service account's name is the other's with a domain in front.    *)
IdentityNotShared ==
  \A q, r \in Requests :
    (Approved(q) /\ Approved(r) /\ request[q].uris[1] = request[r].uris[1]) =>
      /\ pod[q].namespace = pod[r].namespace
      /\ LET s == pod[q].serviceAccount
            t == pod[r].serviceAccount
        IN \/ s = t
           \/ IsSuffix(<<".">> \o s, t)
           \/ IsSuffix(<<".">> \o t, s)

(* With multi-tenancy, service accounts of namespaces that never had an    *)
(* annotation get certificates for one domain per namespace and for one    *)
(* namespace per domain.                                                   *)
TenantsApart ==
  multiTenancy => \A q, r \in Requests :
    (Approved(q) /\ Approved(r) /\ {pod[q].namespace, pod[r].namespace} \cap annotated = {}) =>
      (pod[q].namespace = pod[r].namespace <=>
         getDomainFromServiceAccount(pod[q].serviceAccount)
           = getDomainFromServiceAccount(pod[r].serviceAccount))

(* A pod whose domain is known, and is the namespace's where this is       *)
(* enforced, gets a certificate and every renewal of it, whatever was      *)
(* denied before: a denial is never for good.  The issuer's group has to   *)
(* be given (options.go:225 and the approver's options.go:96 differ), and  *)
(* the duration must not be zero.                                          *)
Entitled(v) ==
  /\ "issuer" \in DOMAIN flags /\ ~DurationsDiffer
  /\ athenzDomain(pod[v]) # <<>>
  /\ multiTenancy => pod[v].namespace = getDashedDomain(athenzDomain(pod[v]))

PodsGetCertificates ==
  \A v \in Volumes : <>[]Entitled(v) => []<>Approved(v)

=============================================================================
