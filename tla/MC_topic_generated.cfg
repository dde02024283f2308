CONSTANTS
  Chars <- MCChars
  Blank = {" "}
  GeneratedNs <- MCGeneratedNs
  Dot = "."
  Public <- MCPublic
  BufLen = 5
  Undefined = Undefined
  Namespaces <- MCGeneratedNamespaces
  Tables <- MCIdents
SPECIFICATION Spec
INVARIANTS TopicNameMatchesSpec
