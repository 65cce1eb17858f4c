SPECIFICATION Spec
CONSTANTS
  ns1 = ns1
  ns2 = ns2
  a = a
  b = b
  NoNamespace = NoNamespace
  Namespaces = {ns1, ns2}
  Ids = {a, b}
  MaxChanges = 2
  Clients = {"app", "none"}
SYMMETRY Symmetry
INVARIANT InstalledFollowsObjects
INVARIANT StablePoliciesObeyed
