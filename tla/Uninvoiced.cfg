SPECIFICATION Spec
CONSTANTS
    v1 = v1
    k1 = k1
    k2 = k2
    None = None
    Vehicle = {v1}
    Clerk = {k1, k2}
    Price = 2
    ServicePrice = 1
    Sum = {1, 2, 3}
    MaxSale = 1
    MaxInvoice = 3
    MaxDelivery = 3
    Plans <- CreditPlans
PROPERTY HandoverInvoiced
CHECK_DEADLOCK FALSE
