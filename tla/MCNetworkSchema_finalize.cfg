\* Two classes of each side, one based on the other, patches that conflict or
\* cannot be applied, plugins that come and go, early and late loads.
CONSTANTS
  Factories = {"fx", "fy"}
  ClientFactories = {"cx", "cy"}
  Names = {"x", "y"}
  Stock = "s"
  Declarations <- Declares
  Derive <- ByHandle
  Classname <- Classnames
  Size <- Sizes
  Sends = {"fx", "fy"}
  Unfinished = {"fx"}
  Props = {"p", "q"}
  IntProps = {"p"}
  Requests <- Asked
  Consumers = {"consumer"}
SPECIFICATION Spec
INVARIANTS RejectedUntouched SidesAgree PublicKept
CHECK_DEADLOCK FALSE
